---- MODULE Spec2Model ----
(***************************************************************************)
(* Shipment registration of tsorders-api: the PATCH /registershipment      *)
(* handler (app/routes.py), the GLS web-service client and response parser *)
(* (app/services.py) and the helpers they use (app/utils.py).              *)
(*                                                                         *)
(* Python values are modelled as follows.  A dict is a record (a function  *)
(* on its keys), a list is a sequence, None is the string NoneValue, an    *)
(* XML node or attribute that is not in the document is the string Absent. *)
(* Accented letters of the Spanish messages are written without accent.    *)
(***************************************************************************)
EXTENDS Integers, Sequences, FiniteSets, TLC

(***************************************************************************)
(* Bounds of the model.                                                    *)
(***************************************************************************)
\* longest list of <Referencia> nodes in a carrier response document
MaxRefs == 2
\* last second of the wall clock that datetime.now() reads
MaxClock == 1

NoneValue == "<None>"
Absent == "<absent>"

\* dict.get(key, default)
Get(d, key, default) == IF key \in DOMAIN d THEN d[key] ELSE default

\* Python truthiness of a str-or-None value
Truthy(v) == v /= NoneValue /\ v /= ""

\* a or b
PyOr(a, b) == IF Truthy(a) THEN a ELSE b

\* the two ways a Python call ends
Return(v) == [kind |-> "return", value |-> v]
Raise(e) == [kind |-> "raise", exc |-> e]

(***************************************************************************)
(* GLSService.get_error_message: the static code -> message table.         *)
(***************************************************************************)
\* the table with one more code
errors_with_one_more ==
    ("+38" :> "Error, Numero de telefono del destinatario no valido.") @@
    ("36" :> "Error, Codigo postal del destinatario, formato incorrecto.") @@
    ("-1" :> "Tiempo de espera expirado.") @@
    ("-3" :> "Error, El codigo de barras del envio ya existe.") @@
    ("-33" :> "Cp destino no existe o no es de esa plaza") @@
    ("-48" :> "Error, servicio EuroEstandar/EBP: El numero de paquetes debe ser siempre 1.") @@
    ("-49" :> "Error, servicio EuroEstandar/EBP: El peso debe ser <= 31,5 kgs.") @@
    ("-70" :> "Error, El numero de pedido ya existe") @@
    ("-99" :> "Advertencia, los servicios web estan temporalmente fuera de servicio.") @@
    ("-128" :> "Error, Nombre del destinatario debe tener al menos tres caracteres.") @@
    ("-129" :> "Error, la direccion del destinatario debe tener al menos tres caracteres.") @@
    ("-130" :> "Error, La Ciudad del Destinatario debe tener al menos tres caracteres.") @@
    ("-131" :> "Error, Consignee Zipcode debe tener al menos cuatro caracteres.") @@
    ("7" :> "Error, codigo 7.")

errors ==
    ("+38" :> "Error, Numero de telefono del destinatario no valido.") @@
    ("36" :> "Error, Codigo postal del destinatario, formato incorrecto.") @@
    ("-1" :> "Tiempo de espera expirado.") @@
    ("-3" :> "Error, El codigo de barras del envio ya existe.") @@
    ("-33" :> "Cp destino no existe o no es de esa plaza") @@
    ("-48" :> "Error, servicio EuroEstandar/EBP: El numero de paquetes debe ser siempre 1.") @@
    ("-49" :> "Error, servicio EuroEstandar/EBP: El peso debe ser <= 31,5 kgs.") @@
    ("-70" :> "Error, El numero de pedido ya existe") @@
    ("-99" :> "Advertencia, los servicios web estan temporalmente fuera de servicio.") @@
    ("-128" :> "Error, Nombre del destinatario debe tener al menos tres caracteres.") @@
    ("-129" :> "Error, la direccion del destinatario debe tener al menos tres caracteres.") @@
    ("-130" :> "Error, La Ciudad del Destinatario debe tener al menos tres caracteres.") @@
    ("-131" :> "Error, Consignee Zipcode debe tener al menos cuatro caracteres.")

get_error_message(error_code) == Get(errors, error_code, "")

(***************************************************************************)
(* GLSService._build_error_response                                        *)
(***************************************************************************)
\* the error's text put in the message field, the response text left empty
_build_error_response_as_message(error, order_id) ==
    [codResponseWS |-> "-1",
     responseWS |-> "",
     messageWS |-> error,
     idOrder |-> order_id]

_build_error_response(error, order_id) ==
    [codResponseWS |-> "-1",
     responseWS |-> error,
     messageWS |-> "Error en solicitud GLS",
     idOrder |-> order_id]

(***************************************************************************)
(* Carrier response documents, as the parser walks them.                   *)
(*   shape      how far the walk gets: "malformed" (ET.fromstring raises), *)
(*              "no_result" (no asm:GrabaServiciosResult), "no_envio",     *)
(*              "no_resultado", "complete"                                 *)
(*   ret        the return attribute of <Resultado>, or Absent             *)
(*   codbarras, uid, codexp   attributes of <Envio>, or Absent             *)
(*   refs       the <Referencias>/<Referencia> nodes in document order:    *)
(*              tipo attribute (or Absent) and text (or NoneValue)         *)
(*   label      text of the first <Etiquetas>/<Etiqueta>, NoneValue when   *)
(*              the node is empty, Absent when there is no such node       *)
(*   err        the same for the first <Errores>/<Error>                   *)
(***************************************************************************)
Shapes == {"malformed", "no_result", "no_envio", "no_resultado", "complete"}
ReturnCodes == {"0", "00", "-1", "-3", "+38", "-70", "7", Absent}
RefNodes == {[tipo |-> "C", text |-> "REF1"],
             [tipo |-> "N", text |-> "REF2"],
             [tipo |-> Absent, text |-> NoneValue]}
EnvioAttrs == {[codbarras |-> "BAR1", uid |-> "UID1", codexp |-> "EXP1"],
               [codbarras |-> "BAR2", uid |-> "UID2", codexp |-> Absent],
               [codbarras |-> Absent, uid |-> Absent, codexp |-> "EXP2"]}
LabelTexts == {"JVBERi0xLjQK", NoneValue, Absent}
ErrorTexts == {"Texto de error GLS", NoneValue, Absent}

RefLists == UNION {[1..n -> RefNodes] : n \in 0..MaxRefs}

Docs ==
    {[shape |-> s, ret |-> c, codbarras |-> a.codbarras, uid |-> a.uid,
      codexp |-> a.codexp, refs |-> rs, label |-> l, err |-> e] :
        s \in Shapes, c \in ReturnCodes, a \in EnvioAttrs, rs \in RefLists,
        l \in LabelTexts, e \in ErrorTexts}

\* node.get(attr, default)
Attr(v, default) == IF v = Absent THEN default ELSE v

\* the comparison made on the number the code denotes
IsSuccessCode_numeric(return_code) == return_code \in {"0", "00", "+0", "-0"}

\* if return_code == "0"
IsSuccessCode(return_code) == return_code = "0"

\* find in place of findall: the first reference only
ExtractRefs_first_only(doc) ==
    [i \in 1..(IF Len(doc.refs) = 0 THEN 0 ELSE 1) |->
        [type |-> Attr(doc.refs[i].tipo, ""),
         value |-> PyOr(doc.refs[i].text, "")]]

\* the list comprehension over findall('.//Referencias/Referencia')
ExtractRefs(doc) ==
    [i \in 1..Len(doc.refs) |->
        [type |-> Attr(doc.refs[i].tipo, ""),
         value |-> PyOr(doc.refs[i].text, "")]]

\* etiqueta_node.text if etiqueta_node is not None else ''
ExtractLabel(doc) == IF doc.label = Absent THEN "" ELSE doc.label

\* error_node.text if error_node is not None else "Error desconocido"
ExtractError(doc) == IF doc.err = Absent THEN "Error desconocido" ELSE doc.err

\* the body of the try block of _parse_gls_response
ParseTry(doc, order_id) ==
    IF doc.shape = "malformed" THEN Raise("ParseError")
    ELSE IF doc.shape = "no_result"
        THEN Return(_build_error_response("Respuesta XML invalida", order_id))
    ELSE IF doc.shape = "no_envio"
        THEN Return(_build_error_response("Nodo Envio no encontrado", order_id))
    ELSE IF doc.shape = "no_resultado"
        THEN Return(_build_error_response("Nodo Resultado no encontrado", order_id))
    ELSE LET return_code == Attr(doc.ret, "-1") IN
        IF IsSuccessCode(return_code)
        THEN Return([codResponseWS |-> return_code,
                     responseWS |-> "",
                     messageWS |-> "Envio insertado Ok",
                     idOrder |-> order_id,
                     uidExp |-> Attr(doc.uid, ""),
                     codBar |-> Attr(doc.codbarras, ""),
                     exp |-> Attr(doc.codexp, ""),
                     refs |-> ExtractRefs(doc),
                     LabelBase64 |-> ExtractLabel(doc)])
        ELSE LET error_msg == ExtractError(doc) IN
             Return([codResponseWS |-> return_code,
                     responseWS |-> error_msg,
                     messageWS |-> PyOr(get_error_message(return_code), error_msg),
                     idOrder |-> order_id])

\* _parse_gls_response without its except clause
_parse_gls_response_no_except(xml_response, order_id) ==
    ParseTry(xml_response, order_id)

\* _parse_gls_response: the try block and its except clause
_parse_gls_response(xml_response, order_id) ==
    LET r == ParseTry(xml_response, order_id) IN
    IF r.kind = "raise"
    THEN Return(_build_error_response("Error parseando respuesta: ParseError", order_id))
    ELSE r


(***************************************************************************)
(* Response builders of app/utils.py.                                      *)
(***************************************************************************)
\* success_response(payload, content, message); resource and count are
\* never passed by the registration handler
success_response(payload, content, message) ==
    IF Truthy(message)
    THEN [header |-> [status |-> "ok", content |-> content],
          payload |-> payload, message |-> message]
    ELSE [header |-> [status |-> "ok", content |-> content],
          payload |-> payload]

empty_response(message) == success_response(<<>>, 0, message)

\* what the HTTP layer sends for a returned dict and for a raised HTTPException
Ok(body) == [http |-> 200, body |-> body]
HTTPException(status_code, detail) == [http |-> status_code, detail |-> detail]
NoResponse == [http |-> 0]

\* handle_database_error: logs and raises HTTPException(500, "Error interno")
handle_database_error == HTTPException(500, "Error interno")

(***************************************************************************)
(* GLSService.__init__ and generate_soap_xml.                              *)
(***************************************************************************)
ConfigKeys == {"uid_cliente", "url_save_ship", "portes", "reembolso",
               "nombre_org", "direccion_org", "poblacion_org", "pais_org",
               "cp_org"}

\* os.getenv gives None for a variable that is not set: the key is always there
GLSConfig == [k \in ConfigKeys |-> "cfg"]

\* the placeholders of xml_template
TemplateFields == {"uid_cliente", "fecha", "servicio", "horario", "bultos",
                   "peso", "portes", "reembolso", "nombre_org",
                   "direccion_org", "poblacion_org", "pais_org", "cp_org",
                   "destinatario", "direccion", "poblacion", "pais", "cp",
                   "telefono", "movil", "email", "departamento",
                   "observaciones", "refC"}

\* what str.format writes for a value: str(None) is "None"
Format(v) == IF v = NoneValue THEN "None" ELSE v

\* {**self.config, **envio, "fecha": fecha}; str.format raises KeyError for
\* a placeholder that is not a key of data; the document is given as the
\* text written at each placeholder
generate_soap_xml(config, envio, fecha) ==
    LET data == ("fecha" :> fecha) @@ envio @@ config IN
    IF TemplateFields \subseteq DOMAIN data
    THEN Return([k \in TemplateFields |-> Format(data[k])])
    ELSE Raise("KeyError")

(***************************************************************************)
(* What the carrier exchange can give: a response body, or an exception    *)
(* of httpx (timeout, connection error).                                   *)
(***************************************************************************)
WSDocs ==
    {d \in Docs :
        /\ d.refs = <<>>
        /\ d.label = "JVBERi0xLjQK"
        /\ d.err = "Texto de error GLS"
        /\ \/ /\ d.uid = "UID1"
              /\ \/ d.shape = "complete" /\ d.ret \in {"0", "00", "-3", "7"}
                 \/ d.shape \in {"malformed", "no_resultado"} /\ d.ret = "0"
           \/ d.codexp = "EXP2" /\ d.shape = "complete" /\ d.ret = "0"}

TransportErrors == {"ReadTimeout", "ConnectError"}

\* the try block of request_shipment_ws, given what the exchange does:
\* whether the POST was sent, and how the block ended
RequestTry(envio, fecha, exchange) ==
    LET xml == generate_soap_xml(GLSConfig, envio, fecha) IN
    IF xml.kind = "raise"
    THEN [posted |-> FALSE, outcome |-> xml]
    ELSE IF exchange.kind = "raise"
    THEN [posted |-> TRUE, outcome |-> exchange]
    ELSE [posted |-> TRUE,
          outcome |-> _parse_gls_response(exchange.value,
                                          Get(envio, "idOrder", ""))]

\* request_shipment_ws without its except clause
request_shipment_ws_no_except(envio, fecha, exchange) ==
    RequestTry(envio, fecha, exchange)

\* request_shipment_ws: the try block and its except clause
request_shipment_ws(envio, fecha, exchange) ==
    LET t == RequestTry(envio, fecha, exchange) IN
    IF t.outcome.kind = "raise"
    THEN [posted |-> t.posted,
          outcome |-> Return(_build_error_response(t.outcome.exc,
                                                   Get(envio, "idOrder", "")))]
    ELSE t

\* the branch taken on the number the code denotes
IsRegistered_numeric(response) ==
    Get(response, "codResponseWS", NoneValue) \in {"0", "00", "+0", "-0"}

\* if gls_response.get("codResponseWS") == "0"
IsRegistered(response) == Get(response, "codResponseWS", NoneValue) = "0"


(***************************************************************************)
(* The database behind the stored procedures.  Nullable columns are        *)
(* sequences of length at most one.                                        *)
(*   shipped[o]   the order is marked shipped (uSp_isOrderNotShipped)      *)
(*   queue[o]     the order's selectedShipment record: "none" or the       *)
(*                process it was queued for                                *)
(*   file[o]      fileGenerateName of the shipment record                  *)
(*   fileFlag[o]  the order detail is flagged as shipped via file          *)
(*   detail[o]    carrier identifiers on the order detail                  *)
(*   tracking[o]  tracking code on the order                               *)
(*   servicio[o]  the servicio column of the shipment record, standing for *)
(*                the columns PATCH /ordersreadytoship can set             *)
(***************************************************************************)
ExistingOrders == {"X1", "X2"}
\* the order ids in the order the procedures list them
OrderList == <<"X1", "X2">>
\* an id no order has
UnknownOrder == "X0"

DBStates ==
    [shipped : [ExistingOrders -> BOOLEAN],
     queue : [ExistingOrders -> {"none", "usingWS", "usingFile"}],
     file : {[o \in ExistingOrders |-> <<>>]},
     fileFlag : {[o \in ExistingOrders |-> FALSE]},
     detail : {[o \in ExistingOrders |-> <<>>]},
     tracking : {[o \in ExistingOrders |-> <<>>]},
     servicio : {[o \in ExistingOrders |-> "v"]}]

\* a statement sent with db.execute
Stmt(sp, params) == [sp |-> sp, params |-> params]

\* CALL uSp_isOrderNotShipped(:idOrder): rows, if the order is there and
\* not shipped
uSp_isOrderNotShipped(d, o) ==
    IF o \in ExistingOrders /\ ~d.shipped[o] THEN <<[idOrder |-> o]>> ELSE <<>>

\* CALL uSp_isExistOrder(:idOrder)
uSp_isExistOrder(d, o) ==
    IF o \in ExistingOrders THEN <<[idOrder |-> o]>> ELSE <<>>

\* the columns of a shipment row besides idOrder
ShipmentColumns == TemplateFields \ (ConfigKeys \cup {"fecha"})

\* CALL uSp_getOrdersForShipmentWS(:idOrder): the rows of the order's
\* shipment record queued for the web service; cols are the columns given
uSp_getOrdersForShipmentWS(d, o, cols) ==
    IF o \in ExistingOrders /\ d.queue[o] = "usingWS"
    THEN <<[k \in cols \cup {"idOrder"} |-> IF k = "idOrder" THEN o ELSE "v"]>>
    ELSE <<>>

\* the shipment records a bulk pass takes: queued for the file, none assigned
Eligible(d) ==
    {o \in ExistingOrders : d.queue[o] = "usingFile" /\ d.file[o] = <<>>}

\* CALL uSp_getOrdersForShipmentFile()
uSp_getOrdersForShipmentFile(d) ==
    LET ids == SelectSeq(OrderList, LAMBDA o : o \in Eligible(d)) IN
    [i \in 1..Len(ids) |-> [idOrder |-> ids[i]]]

\* WHERE idOrder = :idOrder, with the test of the file name left out
Editable_any_file(d, o) ==
    o \in ExistingOrders /\ d.queue[o] /= "none"

\* WHERE idOrder = :idOrder AND fileGenerateName IS NULL
Editable(d, o) ==
    o \in ExistingOrders /\ d.queue[o] /= "none" /\ d.file[o] = <<>>

\* the effect of a committed statement
Apply(d, st) ==
    IF st.sp = "uSp_updateShipmentFile"
    THEN [d EXCEPT !.file = [o \in ExistingOrders |->
            IF o \in Eligible(d) THEN <<st.params[1]>> ELSE d.file[o]]]
    ELSE IF st.sp = "uSp_updateOrdersDetailFile"
    THEN [d EXCEPT
            !.fileFlag = [o \in ExistingOrders |->
                d.fileFlag[o] \/ d.file[o] /= <<>>],
            !.shipped = [o \in ExistingOrders |->
                d.shipped[o] \/ d.file[o] /= <<>>]]
    ELSE IF st.sp = "uSp_updateOrdersDetailWS"
    THEN IF st.params[1] \in ExistingOrders
         THEN [d EXCEPT !.detail[st.params[1]] =
                <<[uIdExp |-> st.params[2], expeditionTraking |-> st.params[3],
                   codBar |-> st.params[4]]>>]
         ELSE d
    ELSE IF st.sp = "uSp_updateShipmentWS"
    THEN IF st.params[1] \in ExistingOrders
         THEN [d EXCEPT !.shipped[st.params[1]] = TRUE]
         ELSE d
    ELSE IF st.sp = "uSp_updateOrdersWS"
    THEN IF st.params[1] \in ExistingOrders
         THEN [d EXCEPT !.tracking[st.params[1]] = <<st.params[2]>>]
         ELSE d
    ELSE IF st.sp = "UPDATE selectedShipment"
    THEN IF Editable(d, st.params[2])
         THEN [d EXCEPT !.servicio[st.params[2]] = st.params[1]]
         ELSE d
    ELSE IF st.sp = "DELETE selectedshipment"
    THEN IF st.params[1] \in ExistingOrders
         THEN [d EXCEPT !.queue[st.params[1]] = "none",
                        !.file[st.params[1]] = <<>>,
                        !.fileFlag[st.params[1]] = FALSE,
                        !.servicio[st.params[1]] = "v"]
         ELSE d
    ELSE IF st.sp = "uSp_insertSelectedshipment"
    THEN IF st.params[2] \in ExistingOrders /\ d.queue[st.params[2]] = "none"
         THEN [d EXCEPT !.queue[st.params[2]] = st.params[3],
                        !.servicio[st.params[2]] = st.params[1]]
         ELSE d
    ELSE d

\* result.rowcount of a statement executed on d
RowCount(d, st) ==
    IF st.sp = "UPDATE selectedShipment"
    THEN IF Editable(d, st.params[2]) THEN 1 ELSE 0
    ELSE IF st.sp = "DELETE selectedshipment"
    THEN IF st.params[1] \in ExistingOrders /\ d.queue[st.params[1]] /= "none"
         THEN 1 ELSE 0
    ELSE IF st.sp = "uSp_insertSelectedshipment"
    THEN IF st.params[2] \in ExistingOrders /\ d.queue[st.params[2]] = "none"
         THEN 1 ELSE 0
    ELSE 0

RECURSIVE ApplyAll(_, _)
ApplyAll(d, sts) ==
    IF sts = <<>> THEN d ELSE ApplyAll(Apply(d, Head(sts)), Tail(sts))


(***************************************************************************)
(* State.  Each request runs the handler on a database session of its own  *)
(* (get_db); requests interleave at every database round trip and at the   *)
(* carrier call.                                                           *)
(***************************************************************************)
VARIABLES
    db,            \* the committed database
    clock,         \* the second datetime.now() reads
    pc,            \* where each request is in the handler
    body,          \* the JSON body each request came with
    data,          \* the RegisterShipment body of each request
    rows,          \* _register_shipment_file: rows
    file_name,     \* _register_shipment_file: file_name (<<>> before it is set)
    envio,         \* _register_shipment_ws: envio
    gls_response,  \* _register_shipment_ws: gls_response
    tx,            \* statements of the session's open transaction
    trace,         \* what the request did to the database and the carrier
    resp,          \* what the caller received
    pDoc,          \* the document given to _parse_gls_response on its own
    pOrder,        \* the order id given with it
    pResult,       \* how that call ended
    bConfig,       \* the configuration of the GLSService given to the builder
    bEnvio,        \* the shipment dict given to generate_soap_xml on its own
    bResult,       \* how that call ended
    qpc,           \* where the /ordersreadytoship request is in its handler
    qdata,         \* its route and body
    qrows,         \* its rows_affected / rows_deleted
    qtx,           \* statements of its session's open transaction
    qtrace,        \* what it did to the database
    qresp,         \* what its caller received
    aJar,          \* the cookies the client sends: access_token, refresh_token
    aNow,          \* the time jwt.decode and datetime.utcnow() read
    aResult,       \* how the last authenticated request ended
    gRows,         \* the rows given to group_orders_with_items on its own
    gResult        \* how that call ended

vars == <<db, clock, pc, body, data, rows, file_name, envio, gls_response, tx,
          trace, resp, pDoc, pOrder, pResult, bConfig, bEnvio, bResult,
          qpc, qdata, qrows, qtx, qtrace, qresp, aJar, aNow, aResult,
          gRows, gResult>>
orchVars == <<db, clock, pc, body, data, rows, file_name, envio, gls_response, tx,
              trace, resp>>
buildVars == <<bConfig, bEnvio, bResult>>
queueVars == <<qpc, qdata, qrows, qtx, qtrace, qresp>>
authVars == <<aJar, aNow, aResult>>
groupVars == <<gRows, gResult>>
parseVars == <<pDoc, pOrder, pResult, buildVars, queueVars, authVars, groupVars>>

Reqs == {"r1", "r2"}

\* the JSON bodies sent, all with a shipmentType the pattern admits: without
\* idOrder, or with idOrder null, empty or an order id
Bodies ==
    [shipmentType : {"usingFile", "usingWS"}] \cup
    [shipmentType : {"usingWS"},
     idOrder : {NoneValue, "", UnknownOrder} \cup ExistingOrders]

\* RegisterShipment.validate_id_order_for_ws
validate_id_order_for_ws(v, values) ==
    IF Get(values, "shipmentType", NoneValue) = "usingWS" /\ ~Truthy(v)
    THEN Raise("ValueError")
    ELSE Return(v)

\* RegisterShipment(**body).  The validator is not called for a field that
\* is not in the body (the default None is taken as it is); whether it is
\* called for an explicit null depends on the pydantic release, which
\* validates_none stands for.
RegisterShipment(b, validates_none) ==
    IF "idOrder" \notin DOMAIN b
    THEN Return([shipmentType |-> b.shipmentType, idOrder |-> NoneValue])
    ELSE IF b.idOrder = NoneValue /\ ~validates_none
    THEN Return(b)
    ELSE LET v == validate_id_order_for_ws(b.idOrder,
                        [shipmentType |-> b.shipmentType])
         IN  IF v.kind = "raise" THEN v
             ELSE Return([shipmentType |-> b.shipmentType, idOrder |-> v.value])

\* the columns uSp_getOrdersForShipmentWS may give besides idOrder
RowShapes == {ShipmentColumns, ShipmentColumns \ {"peso"}}

\* an entry of a request's trace
Ev(op, sp, params) == [op |-> op, sp |-> sp, params |-> params]
Executed(st) == Ev("execute", st.sp, st.params)
Committed == Ev("commit", "", <<>>)
RolledBack == Ev("rollback", "", <<>>)
\* the POST to the carrier and how the exchange ended
Posted(exchange) == Ev("post", "", <<exchange>>)

\* datetime.now().strftime('%d%m%Y_%H%M%S') inside "Envios_....xlsx"
FileNameAt(t) == [prefix |-> "Envios_", stamp |-> t, ext |-> ".xlsx"]

NotStarted == [kind |-> "none"]
\* a local of the handler that holds a dict, before it is assigned
Unset == [unset |-> TRUE]

InitOrch ==
    /\ db \in DBStates
    /\ clock = 0
    /\ pc = [r \in Reqs |-> "idle"]
    /\ body = [r \in Reqs |-> Unset]
    /\ data = [r \in Reqs |-> Unset]
    /\ rows = [r \in Reqs |-> <<>>]
    /\ file_name = [r \in Reqs |-> <<>>]
    /\ envio = [r \in Reqs |-> Unset]
    /\ gls_response = [r \in Reqs |-> Unset]
    /\ tx = [r \in Reqs |-> <<>>]
    /\ trace = [r \in Reqs |-> <<>>]
    /\ resp = [r \in Reqs |-> NoResponse]

\* the builder variables when the builder is not the subject
BuildIdle ==
    /\ bConfig = GLSConfig
    /\ bEnvio = Unset
    /\ bResult = NotStarted

\* the /ordersreadytoship request before it arrives
QueueIdle ==
    /\ qpc = "idle"
    /\ qdata = Unset
    /\ qrows = 0
    /\ qtx = <<>>
    /\ qtrace = <<>>
    /\ qresp = NoResponse

\* a client that sends no cookie and has asked for nothing
AuthIdle ==
    /\ aJar = [access_token |-> [jwt |-> FALSE, text |-> NoneValue],
               refresh_token |-> [jwt |-> FALSE, text |-> NoneValue]]
    /\ aNow = 0
    /\ aResult = NotStarted

\* group_orders_with_items not called
GroupIdle ==
    /\ gRows = <<>>
    /\ gResult = NotStarted

Init ==
    /\ InitOrch
    /\ pDoc = NoneValue
    /\ pOrder = NoneValue
    /\ pResult = NotStarted
    /\ BuildIdle
    /\ QueueIdle
    /\ AuthIdle
    /\ GroupIdle

\* the return of the handler
Respond(r, response) ==
    /\ resp' = [resp EXCEPT ![r] = response]
    /\ pc' = [pc EXCEPT ![r] = "done"]

\* the except clause without db.rollback()
Fail_without_rollback(r, tr) ==
    /\ tx' = tx
    /\ trace' = [trace EXCEPT ![r] = tr]
    /\ Respond(r, handle_database_error)

\* register_shipment's except Exception clause: db.rollback(), then
\* handle_database_error; tr is the trace up to the exception
Fail(r, tr) ==
    /\ tx' = [tx EXCEPT ![r] = <<>>]
    /\ trace' = [trace EXCEPT ![r] = Append(tr, RolledBack)]
    /\ Respond(r, handle_database_error)

\* the answer to a body the schema rejects
RequestValidationError(exc) == [http |-> 422, detail |-> exc]

\* a request arrives: its body is validated into the RegisterShipment the
\* handler is called with, or the request is answered 422 without the
\* handler being called
ArriveWith(r, bodies) ==
    /\ pc[r] = "idle"
    /\ \E b \in bodies, validates_none \in BOOLEAN :
        LET m == RegisterShipment(b, validates_none) IN
        /\ body' = [body EXCEPT ![r] = b]
        /\ IF m.kind = "raise"
           THEN /\ Respond(r, RequestValidationError(m.exc))
                /\ data' = data
           ELSE /\ data' = [data EXCEPT ![r] = m.value]
                /\ pc' = [pc EXCEPT ![r] = "handler"]
                /\ resp' = resp
    /\ UNCHANGED <<parseVars, db, clock, rows, file_name, envio, gls_response, tx,
                   trace>>

Arrive(r) == ArriveWith(r, Bodies)

\* register_shipment: the branch on shipmentType
register_shipment(r) ==
    /\ pc[r] = "handler"
    /\ pc' = [pc EXCEPT ![r] =
            IF data[r].shipmentType = "usingFile"
            THEN "file_select" ELSE "ws_require_id"]
    /\ UNCHANGED <<parseVars, body, db, clock, data, rows, file_name, envio, gls_response,
                   tx, trace, resp>>

\* db.execute(statement) in state at: raises, or joins the transaction
Execute(r, at, st, next) ==
    /\ pc[r] = at
    /\ \E raises \in BOOLEAN :
        IF raises
        THEN Fail(r, Append(trace[r], Ev("execute_raised", st.sp, st.params)))
        ELSE /\ tx' = [tx EXCEPT ![r] = Append(@, st)]
             /\ trace' = [trace EXCEPT ![r] = Append(@, Executed(st))]
             /\ pc' = [pc EXCEPT ![r] = next]
             /\ resp' = resp
    /\ UNCHANGED <<parseVars, body, db, clock, data, rows, file_name, envio, gls_response>>


\* a commit that raises after its statements took effect
Commit_effective_when_raising(r, at, next, response) ==
    /\ pc[r] = at
    /\ \E raises \in BOOLEAN :
        IF raises
        THEN /\ Fail(r, Append(trace[r], Ev("commit_raised", "", <<>>)))
             /\ db' = ApplyAll(db, tx[r])
        ELSE /\ db' = ApplyAll(db, tx[r])
             /\ tx' = [tx EXCEPT ![r] = <<>>]
             /\ trace' = [trace EXCEPT ![r] = Append(@, Committed)]
             /\ pc' = [pc EXCEPT ![r] = next]
             /\ resp' = [resp EXCEPT ![r] = response]
    /\ UNCHANGED <<parseVars, body, clock, data, rows, file_name, envio, gls_response>>

\* db.commit() in state at: raises, or makes the transaction durable; the
\* handler then goes on to state next, with response as its answer so far
Commit(r, at, next, response) ==
    /\ pc[r] = at
    /\ \E raises \in BOOLEAN :
        IF raises
        THEN /\ Fail(r, Append(trace[r], Ev("commit_raised", "", <<>>)))
             /\ db' = db
        ELSE /\ db' = ApplyAll(db, tx[r])
             /\ tx' = [tx EXCEPT ![r] = <<>>]
             /\ trace' = [trace EXCEPT ![r] = Append(@, Committed)]
             /\ pc' = [pc EXCEPT ![r] = next]
             /\ resp' = [resp EXCEPT ![r] = response]
    /\ UNCHANGED <<parseVars, body, clock, data, rows, file_name, envio, gls_response>>

(***************************************************************************)
(* _register_shipment_file                                                 *)
(***************************************************************************)
\* the early return left out
NoRows_never(got) == FALSE

\* if not rows
NoRows(got) == got = <<>>

\* rows = OrderService.get_orders_by_procedure(...); if not rows: return
FileSelect(r) ==
    /\ pc[r] = "file_select"
    /\ LET st == Stmt("uSp_getOrdersForShipmentFile", <<>>) IN
       \E raises \in BOOLEAN :
        IF raises
        THEN /\ Fail(r, Append(trace[r], Ev("execute_raised", st.sp, st.params)))
             /\ rows' = rows
        ELSE LET got == uSp_getOrdersForShipmentFile(db) IN
             /\ trace' = [trace EXCEPT ![r] = Append(@, Executed(st))]
             /\ rows' = [rows EXCEPT ![r] = got]
             /\ tx' = tx
             /\ IF NoRows(got)
                THEN Respond(r, Ok(empty_response(NoneValue)))
                ELSE /\ pc' = [pc EXCEPT ![r] = "file_name"]
                     /\ resp' = resp
    /\ UNCHANGED <<parseVars, body, db, clock, data, file_name, envio, gls_response>>

\* the name built again for every record, the clock running meanwhile
FileName_per_record(r) ==
    /\ pc[r] = "file_name"
    /\ \E t \in clock..MaxClock :
        /\ clock' = t
        /\ file_name' = [file_name EXCEPT ![r] = <<FileNameAt(t)>>]
        /\ rows' = [rows EXCEPT ![r] =
                [i \in 1..Len(@) |->
                    [idOrder |-> @[i].idOrder,
                     fileGenerateName |-> FileNameAt(t + i - 1)]]]
    /\ pc' = [pc EXCEPT ![r] = "file_mark"]
    /\ UNCHANGED <<parseVars, body, db, data, envio, gls_response, tx, trace, resp>>

\* file_name = ...; for record in rows: record["fileGenerateName"] = file_name
FileName(r) ==
    /\ pc[r] = "file_name"
    /\ \E t \in clock..MaxClock :
        /\ clock' = t
        /\ file_name' = [file_name EXCEPT ![r] = <<FileNameAt(t)>>]
        /\ rows' = [rows EXCEPT ![r] =
                [i \in 1..Len(@) |->
                    [idOrder |-> @[i].idOrder,
                     fileGenerateName |-> FileNameAt(t)]]]
    /\ pc' = [pc EXCEPT ![r] = "file_mark"]
    /\ UNCHANGED <<parseVars, body, db, data, envio, gls_response, tx, trace, resp>>

\* db.execute(CALL uSp_updateShipmentFile(:fileGenerateName))
FileMark(r) ==
    Execute(r, "file_mark",
            Stmt("uSp_updateShipmentFile", <<file_name[r][1]>>),
            "file_mark_commit")

\* the file marking left for the second commit
FileMarkCommit_deferred(r) ==
    /\ pc[r] = "file_mark_commit"
    /\ pc' = [pc EXCEPT ![r] = "file_detail"]
    /\ UNCHANGED <<parseVars, body, db, clock, data, rows, file_name, envio,
                   gls_response, tx, trace, resp>>

\* db.commit() after the file marking
FileMarkCommit(r) == Commit(r, "file_mark_commit", "file_detail", resp[r])

\* db.execute(CALL uSp_updateOrdersDetailFile())
FileDetail(r) ==
    Execute(r, "file_detail", Stmt("uSp_updateOrdersDetailFile", <<>>),
            "file_detail_commit")

\* a commit that neither returns nor raises
FileDetailCommit_never_returns(r) ==
    /\ pc[r] = "file_detail_commit"
    /\ FALSE
    /\ UNCHANGED vars

\* db.commit(); return success_response(rows)
FileDetailCommit(r) ==
    Commit(r, "file_detail_commit", "done",
           Ok(success_response(rows[r], 1, NoneValue)))

(***************************************************************************)
(* _register_shipment_ws                                                   *)
(***************************************************************************)
\* a result object taken for its rows: always true
check_order_not_shipped_always(call) == TRUE

\* check_order_not_shipped, given how its db.execute ended
check_order_not_shipped(call) ==
    IF call.kind = "raise" THEN FALSE ELSE call.value /= <<>>

\* check_order_exists, given how its db.execute ended
check_order_exists(call) ==
    IF call.kind = "raise" THEN FALSE ELSE call.value /= <<>>

\* the order id taken as given
WsRequireId_skipped(r) ==
    /\ pc[r] = "ws_require_id"
    /\ pc' = [pc EXCEPT ![r] = "ws_check"]
    /\ UNCHANGED <<parseVars, body, db, clock, data, rows, file_name, envio,
                   gls_response, tx, trace, resp>>

\* if not order_id: raise HTTPException(400, ...)
WsRequireId(r) ==
    /\ pc[r] = "ws_require_id"
    /\ IF ~Truthy(data[r].idOrder)
       THEN Respond(r, HTTPException(400,
                "idOrder es requerido para shipmentType=usingWS"))
       ELSE /\ pc' = [pc EXCEPT ![r] = "ws_check"]
            /\ resp' = resp
    /\ UNCHANGED <<parseVars, body, db, clock, data, rows, file_name, envio, gls_response,
                   tx, trace>>

\* the check held back while another request for the same order is between
\* its own check and its completion flag
WsCheck_serialized(r) ==
    /\ pc[r] = "ws_check"
    /\ \A q \in Reqs \ {r} :
        data[q] = data[r] =>
            pc[q] \notin {"ws_fetch", "ws_call", "ws_detail", "ws_detail_commit",
                          "ws_shipment", "ws_shipment_commit"}
    /\ LET order_id == data[r].idOrder
           st == Stmt("uSp_isOrderNotShipped", <<order_id>>)
       IN \E call \in {Return(uSp_isOrderNotShipped(db, order_id)),
                       Raise("OperationalError")} :
            /\ trace' = [trace EXCEPT ![r] = Append(@,
                    IF call.kind = "raise"
                    THEN Ev("execute_raised", st.sp, st.params)
                    ELSE Executed(st))]
            /\ IF ~check_order_not_shipped(call)
               THEN Respond(r, Ok(success_response(<<>>, 0,
                                    "El pedido ya fue enviado")))
               ELSE /\ pc' = [pc EXCEPT ![r] = "ws_fetch"]
                    /\ resp' = resp
    /\ UNCHANGED <<parseVars, body, db, clock, data, rows, file_name, envio, gls_response, tx>>

\* if not check_order_not_shipped(db, order_id): return ...
WsCheck(r) ==
    /\ pc[r] = "ws_check"
    /\ LET order_id == data[r].idOrder
           st == Stmt("uSp_isOrderNotShipped", <<order_id>>)
       IN \E call \in {Return(uSp_isOrderNotShipped(db, order_id)),
                       Raise("OperationalError")} :
            /\ trace' = [trace EXCEPT ![r] = Append(@,
                    IF call.kind = "raise"
                    THEN Ev("execute_raised", st.sp, st.params)
                    ELSE Executed(st))]
            /\ IF ~check_order_not_shipped(call)
               THEN Respond(r, Ok(success_response(<<>>, 0,
                                    "El pedido ya fue enviado")))
               ELSE /\ pc' = [pc EXCEPT ![r] = "ws_fetch"]
                    /\ resp' = resp
    /\ UNCHANGED <<parseVars, body, db, clock, data, rows, file_name, envio, gls_response, tx>>

\* the row taken without the test for None
WsFetch_unguarded(r) ==
    /\ pc[r] = "ws_fetch"
    /\ LET order_id == data[r].idOrder
           st == Stmt("uSp_getOrdersForShipmentWS", <<order_id>>)
       IN \E raises \in BOOLEAN, cols \in RowShapes :
        IF raises
        THEN /\ Fail(r, Append(trace[r], Ev("execute_raised", st.sp, st.params)))
             /\ envio' = envio
        ELSE LET got == uSp_getOrdersForShipmentWS(db, order_id, cols) IN
             /\ trace' = [trace EXCEPT ![r] = Append(@, Executed(st))]
             /\ tx' = tx
             /\ envio' = [envio EXCEPT ![r] =
                    IF got = <<>> THEN [idOrder |-> order_id] ELSE got[1]]
             /\ pc' = [pc EXCEPT ![r] = "ws_call"]
             /\ resp' = resp
    /\ UNCHANGED <<parseVars, body, db, clock, data, rows, file_name, gls_response>>

\* shipment_data = db.execute(...).fetchone(); if not shipment_data: return
WsFetch(r) ==
    /\ pc[r] = "ws_fetch"
    /\ LET order_id == data[r].idOrder
           st == Stmt("uSp_getOrdersForShipmentWS", <<order_id>>)
       IN \E raises \in BOOLEAN, cols \in RowShapes :
        IF raises
        THEN /\ Fail(r, Append(trace[r], Ev("execute_raised", st.sp, st.params)))
             /\ envio' = envio
        ELSE LET got == uSp_getOrdersForShipmentWS(db, order_id, cols) IN
             /\ trace' = [trace EXCEPT ![r] = Append(@, Executed(st))]
             /\ tx' = tx
             /\ IF got = <<>>
                THEN /\ Respond(r, Ok(empty_response(NoneValue)))
                     /\ envio' = envio
                ELSE /\ envio' = [envio EXCEPT ![r] = got[1]]
                     /\ pc' = [pc EXCEPT ![r] = "ws_call"]
                     /\ resp' = resp
    /\ UNCHANGED <<parseVars, body, db, clock, data, rows, file_name, gls_response>>

\* the POST sent again after a transport error
WsCall_retry(r) ==
    /\ pc[r] = "ws_call"
    /\ \E exchange \in {Return(d) : d \in WSDocs} \cup
                       {Raise(e) : e \in TransportErrors} :
        LET out == request_shipment_ws(envio[r], "today", exchange)
            tr == IF ~out.posted THEN trace[r]
                  ELSE IF exchange.kind = "raise"
                  THEN trace[r] \o <<Posted(exchange), Posted(exchange)>>
                  ELSE Append(trace[r], Posted(exchange))
        IN  IF out.outcome.kind = "raise"
            THEN /\ Fail(r, tr)
                 /\ gls_response' = gls_response
            ELSE /\ gls_response' = [gls_response EXCEPT ![r] = out.outcome.value]
                 /\ trace' = [trace EXCEPT ![r] = tr]
                 /\ tx' = tx
                 /\ IF IsRegistered(out.outcome.value)
                    THEN /\ pc' = [pc EXCEPT ![r] = "ws_detail"]
                         /\ resp' = resp
                    ELSE Respond(r, Ok(success_response(out.outcome.value, 1,
                                                        NoneValue)))
    /\ UNCHANGED <<parseVars, body, db, clock, data, rows, file_name, envio>>

\* gls_response = await gls_service.request_shipment_ws(envio), and the
\* branch on its result code; an exception would reach register_shipment's
\* except clause
WsCall(r) ==
    /\ pc[r] = "ws_call"
    /\ \E exchange \in {Return(d) : d \in WSDocs} \cup
                       {Raise(e) : e \in TransportErrors} :
        LET out == request_shipment_ws(envio[r], "today", exchange)
            tr == IF out.posted
                  THEN Append(trace[r], Posted(exchange)) ELSE trace[r]
        IN  IF out.outcome.kind = "raise"
            THEN /\ Fail(r, tr)
                 /\ gls_response' = gls_response
            ELSE /\ gls_response' = [gls_response EXCEPT ![r] = out.outcome.value]
                 /\ trace' = [trace EXCEPT ![r] = tr]
                 /\ tx' = tx
                 /\ IF IsRegistered(out.outcome.value)
                    THEN /\ pc' = [pc EXCEPT ![r] = "ws_detail"]
                         /\ resp' = resp
                    ELSE Respond(r, Ok(success_response(out.outcome.value, 1,
                                                        NoneValue)))
    /\ UNCHANGED <<parseVars, body, db, clock, data, rows, file_name, envio>>

\* db.execute(CALL uSp_updateOrdersDetailWS(...))
WsDetail(r) ==
    Execute(r, "ws_detail",
            Stmt("uSp_updateOrdersDetailWS",
                 <<gls_response[r]["idOrder"],
                   Get(gls_response[r], "uidExp", ""),
                   Get(gls_response[r], "exp", ""),
                   Get(gls_response[r], "codBar", "")>>),
            "ws_detail_commit")

\* the first update left uncommitted
WsDetailCommit_missing(r) ==
    /\ pc[r] = "ws_detail_commit"
    /\ pc' = [pc EXCEPT ![r] = "ws_shipment"]
    /\ UNCHANGED <<parseVars, body, db, clock, data, rows, file_name, envio, gls_response,
                   tx, trace, resp>>

\* db.commit() after the first update
WsDetailCommit(r) == Commit(r, "ws_detail_commit", "ws_shipment", resp[r])

\* db.execute(CALL uSp_updateShipmentWS(:idOrder))
WsShipment(r) ==
    Execute(r, "ws_shipment",
            Stmt("uSp_updateShipmentWS", <<data[r].idOrder>>),
            "ws_shipment_commit")

\* db.commit() after the second update
WsShipmentCommit(r) == Commit(r, "ws_shipment_commit", "ws_orders", resp[r])

\* the carrier's unique id written as tracking code
WsOrders_with_uid(r) ==
    Execute(r, "ws_orders",
            Stmt("uSp_updateOrdersWS",
                 <<data[r].idOrder, Get(gls_response[r], "uidExp", "")>>),
            "ws_orders_commit")

\* db.execute(CALL uSp_updateOrdersWS(:idOrder, :exp))
WsOrders(r) ==
    Execute(r, "ws_orders",
            Stmt("uSp_updateOrdersWS",
                 <<data[r].idOrder, Get(gls_response[r], "exp", "")>>),
            "ws_orders_commit")

\* db.commit(); return success_response(gls_response)
WsOrdersCommit(r) ==
    Commit(r, "ws_orders_commit", "done",
           Ok(success_response(gls_response[r], 1, NoneValue)))

Next ==
    \/ \E r \in Reqs : Arrive(r)
    \/ \E r \in Reqs : register_shipment(r)
    \/ \E r \in Reqs : FileSelect(r)
    \/ \E r \in Reqs : FileName(r)
    \/ \E r \in Reqs : FileMark(r)
    \/ \E r \in Reqs : FileMarkCommit(r)
    \/ \E r \in Reqs : FileDetail(r)
    \/ \E r \in Reqs : FileDetailCommit(r)
    \/ \E r \in Reqs : WsRequireId(r)
    \/ \E r \in Reqs : WsCheck(r)
    \/ \E r \in Reqs : WsFetch(r)
    \/ \E r \in Reqs : WsCall(r)
    \/ \E r \in Reqs : WsDetail(r)
    \/ \E r \in Reqs : WsDetailCommit(r)
    \/ \E r \in Reqs : WsShipment(r)
    \/ \E r \in Reqs : WsShipmentCommit(r)
    \/ \E r \in Reqs : WsOrders(r)
    \/ \E r \in Reqs : WsOrdersCommit(r)

Spec == Init /\ [][Next]_vars

\* the steps of the handler for request r, once it has arrived
Step(r) ==
    \/ register_shipment(r)
    \/ FileSelect(r)
    \/ FileName(r)
    \/ FileMark(r)
    \/ FileMarkCommit(r)
    \/ FileDetail(r)
    \/ FileDetailCommit(r)
    \/ WsRequireId(r)
    \/ WsCheck(r)
    \/ WsFetch(r)
    \/ WsCall(r)
    \/ WsDetail(r)
    \/ WsDetailCommit(r)
    \/ WsShipment(r)
    \/ WsShipmentCommit(r)
    \/ WsOrders(r)
    \/ WsOrdersCommit(r)

\* every database call returns or raises, the carrier call returns or times
\* out (timeout=30.0), and the event loop runs every handler that can go on
SpecLive == Spec /\ \A r \in Reqs : WF_vars(Step(r))


(***************************************************************************)
(* The parser on its own: _parse_gls_response applied to one document.     *)
(***************************************************************************)
ParseOrders == {"X1", "X2"}

InitParse ==
    /\ InitOrch
    /\ db = [shipped |-> [o \in ExistingOrders |-> FALSE],
             queue |-> [o \in ExistingOrders |-> "none"],
             file |-> [o \in ExistingOrders |-> <<>>],
             fileFlag |-> [o \in ExistingOrders |-> FALSE],
             detail |-> [o \in ExistingOrders |-> <<>>],
             tracking |-> [o \in ExistingOrders |-> <<>>],
             servicio |-> [o \in ExistingOrders |-> "v"]]
    /\ pDoc \in Docs
    /\ pOrder \in ParseOrders
    /\ pResult = NotStarted
    /\ BuildIdle
    /\ QueueIdle
    /\ AuthIdle
    /\ GroupIdle

ParseStep ==
    /\ pResult = NotStarted
    /\ pResult' = _parse_gls_response(pDoc, pOrder)
    /\ UNCHANGED <<pDoc, pOrder, buildVars, queueVars, authVars, groupVars,
                   orchVars>>

NextParse == ParseStep

SpecParse == InitParse /\ [][NextParse]_vars


(***************************************************************************)
(* The builder on its own: generate_soap_xml applied to one configuration  *)
(* and one shipment dict.                                                  *)
(***************************************************************************)
\* the configurations: every variable set, or one of them not set (os.getenv
\* gives None)
BuildConfigs ==
    {GLSConfig} \cup
    {[k \in ConfigKeys |-> IF k = u THEN NoneValue ELSE "cfg"] : u \in ConfigKeys}

\* the shipment dicts: every column there, one column not there, or one
\* column NULL
BuildEnvios ==
    LET full == [k \in ShipmentColumns \cup {"idOrder"} |->
                    IF k = "idOrder" THEN "X1" ELSE "v"]
    IN  {full} \cup
        {[k \in DOMAIN full \ {m} |-> full[k]] : m \in ShipmentColumns} \cup
        {[full EXCEPT ![m] = NoneValue] : m \in ShipmentColumns}

InitBuild ==
    /\ InitOrch
    /\ db = [shipped |-> [o \in ExistingOrders |-> FALSE],
             queue |-> [o \in ExistingOrders |-> "none"],
             file |-> [o \in ExistingOrders |-> <<>>],
             fileFlag |-> [o \in ExistingOrders |-> FALSE],
             detail |-> [o \in ExistingOrders |-> <<>>],
             tracking |-> [o \in ExistingOrders |-> <<>>],
             servicio |-> [o \in ExistingOrders |-> "v"]]
    /\ pDoc = NoneValue
    /\ pOrder = NoneValue
    /\ pResult = NotStarted
    /\ bConfig \in BuildConfigs
    /\ bEnvio \in BuildEnvios
    /\ bResult = NotStarted
    /\ QueueIdle
    /\ AuthIdle
    /\ GroupIdle

BuildStep ==
    /\ bResult = NotStarted
    /\ bResult' = generate_soap_xml(bConfig, bEnvio, "today")
    /\ UNCHANGED <<bConfig, bEnvio, pDoc, pOrder, pResult, queueVars, authVars,
                   groupVars, orchVars>>

NextBuild == BuildStep

SpecBuild == InitBuild /\ [][NextBuild]_vars


(***************************************************************************)
(* The shipment queue: POST, PATCH and DELETE /ordersreadytoship, each on  *)
(* a database session of its own.  One client sends one request after the  *)
(* other while a bulk registration runs.                                   *)
(***************************************************************************)
\* created_response
created_response(rows_affected, message) ==
    [header |-> [status |-> "ok", insertedRows |-> rows_affected],
     message |-> IF rows_affected > 0 THEN message
                 ELSE "No se insertó el registro"]

\* updated_response
updated_response(rows_affected, message) ==
    [header |-> [status |-> "ok", updatedRows |-> rows_affected],
     message |-> IF rows_affected > 0 THEN message
                 ELSE "No se actualizó el registro"]

\* deleted_response
deleted_response(rows_affected, message) ==
    [header |-> [status |-> "ok", deletedRows |-> rows_affected],
     message |-> IF rows_affected > 0 THEN message
                 ELSE "No se pudo eliminar el registro"]

\* status_code=201 of the POST route
Created(b) == [http |-> 201, body |-> b]

\* the order ids the client sends
QueueOrders == {UnknownOrder, "X1"}

\* the bodies the schemas ShipmentData, UpdateShipment and DeleteShipment
\* admit; servicio stands for the shipment columns, and an order is queued
\* for the process of its shipmentType
QueueBodies ==
    {[route |-> "POST", idOrder |-> o, shipmentType |-> t, process |-> t,
      servicio |-> "w", value |-> 1] :
        o \in QueueOrders, t \in {"usingFile", "usingWS"}} \cup
    {[route |-> "PATCH", idOrder |-> o, columnName |-> "servicio",
      columnValue |-> "w"] : o \in QueueOrders} \cup
    {[route |-> "DELETE", idOrder |-> o, shipmentType |-> t, value |-> 0] :
        o \in QueueOrders, t \in {"usingFile", "usingWS"}}

\* sp_name = "uSp_updateMarkShipment" if ... else "uSp_updateSelectedShipment"
sp_name(shipmentType) ==
    IF shipmentType = "usingFile"
    THEN "uSp_updateMarkShipment" ELSE "uSp_updateSelectedShipment"

\* what the queue routes leave alone
queueFrame == <<pDoc, pOrder, pResult, buildVars, authVars, groupVars, clock, pc, body, data, rows,
                file_name, envio, gls_response, tx, trace, resp>>

\* the return of a queue route
QRespond(response) ==
    /\ qresp' = response
    /\ qpc' = "done"

\* the except Exception clause of a queue route
QFail(tr) ==
    /\ qtx' = <<>>
    /\ qtrace' = Append(tr, RolledBack)
    /\ QRespond(handle_database_error)

\* a request arrives, once the one before it was answered
QArrive ==
    /\ qpc \in {"idle", "done"}
    /\ \E b \in QueueBodies :
        /\ qdata' = b
        /\ qpc' = IF b.route = "POST" THEN "post_exists"
                  ELSE IF b.route = "PATCH" THEN "patch_update"
                  ELSE "delete_exists"
    /\ qrows' = 0
    /\ qtx' = <<>>
    /\ qtrace' = <<>>
    /\ qresp' = NoResponse
    /\ UNCHANGED <<queueFrame, db>>

\* if not check(db, data.idOrder): return rejected
QCheck(at, sp, found, next, rejected) ==
    /\ qpc = at
    /\ LET st == Stmt(sp, <<qdata.idOrder>>) IN
       \E call \in {Return(found), Raise("OperationalError")} :
            /\ qtrace' = Append(qtrace,
                    IF call.kind = "raise"
                    THEN Ev("execute_raised", st.sp, st.params)
                    ELSE Executed(st))
            /\ IF ~check_order_exists(call)
               THEN QRespond(rejected)
               ELSE /\ qpc' = next
                    /\ qresp' = qresp
    /\ UNCHANGED <<queueFrame, db, qdata, qrows, qtx>>

\* result = db.execute(statement): raises, or joins the transaction; a
\* counted statement leaves its result.rowcount in qrows
QExecute(at, st, next, counted) ==
    /\ qpc = at
    /\ \E raises \in BOOLEAN :
        IF raises
        THEN /\ QFail(Append(qtrace, Ev("execute_raised", st.sp, st.params)))
             /\ qrows' = qrows
        ELSE /\ qtx' = Append(qtx, st)
             /\ qtrace' = Append(qtrace, Executed(st))
             /\ qrows' = IF counted THEN RowCount(db, st) ELSE qrows
             /\ qpc' = next
             /\ qresp' = qresp
    /\ UNCHANGED <<queueFrame, db, qdata>>

\* db.commit(): raises, or makes the transaction durable; the route then
\* goes on to state next, or returns response when next is "done"
QCommit(at, next, response) ==
    /\ qpc = at
    /\ \E raises \in BOOLEAN :
        IF raises
        THEN /\ QFail(Append(qtrace, Ev("commit_raised", "", <<>>)))
             /\ db' = db
        ELSE /\ db' = ApplyAll(db, qtx)
             /\ qtx' = <<>>
             /\ qtrace' = Append(qtrace, Committed)
             /\ qpc' = next
             /\ qresp' = response
    /\ UNCHANGED <<queueFrame, qdata, qrows>>

\* create_order_ready_to_ship
PostExists ==
    QCheck("post_exists", "uSp_isExistOrder",
           uSp_isExistOrder(db, qdata.idOrder), "post_unshipped",
           Created(created_response(0, "El pedido no existe")))

PostUnshipped ==
    QCheck("post_unshipped", "uSp_isOrderNotShipped",
           uSp_isOrderNotShipped(db, qdata.idOrder), "post_flag",
           Created(created_response(0, "El pedido ya fue enviado")))

PostFlag ==
    /\ qpc = "post_flag"
    /\ QExecute("post_flag",
                Stmt(sp_name(qdata.shipmentType), <<qdata.value, qdata.idOrder>>),
                "post_flag_commit", FALSE)

PostFlagCommit == QCommit("post_flag_commit", "post_insert", qresp)

PostInsert ==
    /\ qpc = "post_insert"
    /\ QExecute("post_insert",
                Stmt("uSp_insertSelectedshipment",
                     <<qdata.servicio, qdata.idOrder, qdata.process>>),
                "post_insert_commit", TRUE)

PostInsertCommit ==
    QCommit("post_insert_commit", "done",
            Created(created_response(qrows, "Registro insertado")))

\* update_order_ready_to_ship
PatchUpdate ==
    /\ qpc = "patch_update"
    /\ QExecute("patch_update",
                Stmt("UPDATE selectedShipment",
                     <<qdata.columnValue, qdata.idOrder>>),
                "patch_commit", TRUE)

PatchCommit ==
    QCommit("patch_commit", "done",
            Ok(updated_response(qrows, "Registro actualizado")))

\* delete_order_ready_to_ship
DeleteExists ==
    QCheck("delete_exists", "uSp_isExistOrder",
           uSp_isExistOrder(db, qdata.idOrder), "delete_delete",
           Ok(deleted_response(0, "El pedido no existe")))

DeleteDelete ==
    /\ qpc = "delete_delete"
    /\ QExecute("delete_delete",
                Stmt("DELETE selectedshipment", <<qdata.idOrder>>),
                "delete_commit", TRUE)

\* db.commit(), then if rows_deleted > 0: ...; return deleted_response(...)
DeleteCommit ==
    IF qrows > 0
    THEN QCommit("delete_commit", "delete_flag", qresp)
    ELSE QCommit("delete_commit", "done",
                 Ok(deleted_response(qrows, "Registro eliminado")))

DeleteFlag ==
    /\ qpc = "delete_flag"
    /\ QExecute("delete_flag",
                Stmt(sp_name(qdata.shipmentType),
                     <<IF qdata.value = 0 THEN 0 ELSE qdata.value,
                       qdata.idOrder>>),
                "delete_flag_commit", FALSE)

DeleteFlagCommit ==
    QCommit("delete_flag_commit", "done",
            Ok(deleted_response(qrows, "Registro eliminado")))

\* the steps of a queue route, once its request has arrived
QStep ==
    \/ PostExists
    \/ PostUnshipped
    \/ PostFlag
    \/ PostFlagCommit
    \/ PostInsert
    \/ PostInsertCommit
    \/ PatchUpdate
    \/ PatchCommit
    \/ DeleteExists
    \/ DeleteDelete
    \/ DeleteCommit
    \/ DeleteFlag
    \/ DeleteFlagCommit

\* the request that registers in bulk while the queue is worked on
BulkReq == "r1"

\* the bulk registration arrives
ArriveBulk == ArriveWith(BulkReq, {[shipmentType |-> "usingFile"]})

InitQueue == Init

NextQueue ==
    \/ ArriveBulk
    \/ register_shipment(BulkReq)
    \/ FileSelect(BulkReq)
    \/ FileName(BulkReq)
    \/ FileMark(BulkReq)
    \/ FileMarkCommit(BulkReq)
    \/ FileDetail(BulkReq)
    \/ FileDetailCommit(BulkReq)
    \/ QArrive
    \/ PostExists
    \/ PostUnshipped
    \/ PostFlag
    \/ PostFlagCommit
    \/ PostInsert
    \/ PostInsertCommit
    \/ PatchUpdate
    \/ PatchCommit
    \/ DeleteExists
    \/ DeleteDelete
    \/ DeleteCommit
    \/ DeleteFlag
    \/ DeleteFlagCommit

SpecQueue == InitQueue /\ [][NextQueue]_vars

\* every database call returns or raises, and the event loop runs every
\* handler that can go on
SpecQueueLive == SpecQueue /\ WF_vars(Step(BulkReq)) /\ WF_vars(QStep)


(***************************************************************************)
(* Authentication: the get_current_user dependency of every route of the   *)
(* orders router, and POST /auth/refresh.  A JWT is the claims it carries  *)
(* and the key it was signed with; a cookie is a JWT or some other text    *)
(* (None when the cookie is not sent).                                     *)
(***************************************************************************)
JWT_SECRET_KEY == "secret"
\* the keys a token may be signed with: ours, or somebody's own
Keys == {JWT_SECRET_KEY, "forged"}
\* the last instant of the clock
MaxNow == 2
\* ACCESS_TOKEN_EXPIRE_MINUTES, in ticks of the clock
ACCESS_TOKEN_EXPIRE == 1

\* jwt.encode
jwt_encode(claims, key) == [jwt |-> TRUE, claims |-> claims, key |-> key]

\* a cookie that is no JWT
Text(t) == [jwt |-> FALSE, text |-> t]

\* the claims of the tokens sent: an expiry, and type and sub or not
Claims ==
    UNION {[exp : 1..MaxNow],
           [exp : 1..MaxNow, type : {"access", "refresh"}],
           [exp : 1..MaxNow, sub : {"user", ""}],
           [exp : 1..MaxNow, type : {"access", "refresh"}, sub : {"user", ""}]}

\* what a client may send as a cookie
Cookies ==
    {Text(NoneValue), Text(""), Text("not.a.jwt")} \cup
    {jwt_encode(c, k) : c \in Claims, k \in Keys}

\* jwt.decode(token, JWT_SECRET_KEY, algorithms=[JWT_ALGORITHM]) at time now
jwt_decode(token, key, now) ==
    IF ~token.jwt THEN Raise("JWTError")
    ELSE IF token.key /= key THEN Raise("JWTError")
    ELSE IF token.claims.exp < now THEN Raise("ExpiredSignatureError")
    ELSE Return(token.claims)

\* if not token
NoToken(token) == ~token.jwt /\ ~Truthy(token.text)

\* decode_token
decode_token(token, now) ==
    LET d == jwt_decode(token, JWT_SECRET_KEY, now) IN
    IF d.kind = "raise"
    THEN Raise(HTTPException(401, "Token inválido o expirado"))
    ELSE d

\* create_access_token(data) at time now
create_access_token(to_encode, now) ==
    jwt_encode([k \in DOMAIN to_encode \cup {"exp", "type"} |->
                    IF k = "exp" THEN now + ACCESS_TOKEN_EXPIRE
                    ELSE IF k = "type" THEN "access"
                    ELSE to_encode[k]],
               JWT_SECRET_KEY)

\* the dependency without the test of the type
get_current_user_from_cookie_any_type(token, now) ==
    IF NoToken(token)
    THEN Raise(HTTPException(401, "No autenticado. Por favor inicia sesión."))
    ELSE LET payload == decode_token(token, now) IN
         IF payload.kind = "raise" THEN payload
         ELSE LET username == Get(payload.value, "sub", NoneValue) IN
              IF ~Truthy(username)
              THEN Raise(HTTPException(401, "Token inválido"))
              ELSE Return([username |-> username])

\* get_current_user_from_cookie, with the access_token cookie of the request
get_current_user_from_cookie(token, now) ==
    IF NoToken(token)
    THEN Raise(HTTPException(401, "No autenticado. Por favor inicia sesión."))
    ELSE LET payload == decode_token(token, now) IN
         IF payload.kind = "raise" THEN payload
         ELSE IF Get(payload.value, "type", NoneValue) /= "access"
         THEN Raise(HTTPException(401, "Token inválido"))
         ELSE LET username == Get(payload.value, "sub", NoneValue) IN
              IF ~Truthy(username)
              THEN Raise(HTTPException(401, "Token inválido"))
              ELSE Return([username |-> username])

\* refresh_token, with the refresh_token cookie of the request: the cookie
\* it sets and the body it returns
refresh_token(refresh_token_value, now) ==
    IF NoToken(refresh_token_value)
    THEN Raise(HTTPException(401, "No hay token de actualización. Por favor inicia sesión nuevamente."))
    ELSE LET payload == decode_token(refresh_token_value, now) IN
         IF payload.kind = "raise" THEN payload
         ELSE IF Get(payload.value, "type", NoneValue) /= "refresh"
         THEN Raise(HTTPException(401, "Token inválido"))
         ELSE LET username == Get(payload.value, "sub", NoneValue) IN
              Return([set_cookie |-> create_access_token([sub |-> username], now),
                      body |-> [message |-> "Token actualizado exitosamente",
                                username |-> username]])

\* a request to a route of the orders router: the handler, which is what
\* uses the database session, is called only when the dependency returned
Dispatch(token, now) ==
    LET user == get_current_user_from_cookie(token, now) IN
    [route |-> "orders", cookie |-> token, now |-> now, outcome |-> user,
     handler_called |-> user.kind = "return"]

InitAuth ==
    /\ InitOrch
    /\ db = [shipped |-> [o \in ExistingOrders |-> FALSE],
             queue |-> [o \in ExistingOrders |-> "none"],
             file |-> [o \in ExistingOrders |-> <<>>],
             fileFlag |-> [o \in ExistingOrders |-> FALSE],
             detail |-> [o \in ExistingOrders |-> <<>>],
             tracking |-> [o \in ExistingOrders |-> <<>>],
             servicio |-> [o \in ExistingOrders |-> "v"]]
    /\ pDoc = NoneValue
    /\ pOrder = NoneValue
    /\ pResult = NotStarted
    /\ BuildIdle
    /\ QueueIdle
    /\ aJar \in [access_token : Cookies, refresh_token : Cookies]
    /\ aNow = 0
    /\ aResult = NotStarted
    /\ GroupIdle

\* the client calls a route of the orders router
AuthOrders ==
    /\ aResult' = Dispatch(aJar.access_token, aNow)
    /\ UNCHANGED <<aJar, aNow, pDoc, pOrder, pResult, buildVars, queueVars,
                   groupVars, orchVars>>

\* the client calls POST /auth/refresh
AuthRefresh ==
    /\ LET out == refresh_token(aJar.refresh_token, aNow) IN
        /\ aResult' = [route |-> "refresh", cookie |-> aJar.refresh_token,
                       now |-> aNow, outcome |-> out]
        /\ aJar' = IF out.kind = "return"
                   THEN [aJar EXCEPT !.access_token = out.value.set_cookie]
                   ELSE aJar
    /\ UNCHANGED <<aNow, pDoc, pOrder, pResult, buildVars, queueVars, groupVars,
                   orchVars>>

\* time passes
AuthTick ==
    /\ aNow < MaxNow
    /\ aNow' = aNow + 1
    /\ UNCHANGED <<aJar, aResult, pDoc, pOrder, pResult, buildVars, queueVars,
                   groupVars, orchVars>>

NextAuth ==
    \/ AuthOrders
    \/ AuthRefresh
    \/ AuthTick

SpecAuth == InitAuth /\ [][NextAuth]_vars



(***************************************************************************)
(* group_orders_with_items on its own, applied to one list of rows.        *)
(***************************************************************************)
\* the longest list of rows given
MaxRows == 4

product_fields ==
    {"orderItemId", "sku", "productName", "quantityPurchased", "itemPrice",
     "itemTax", "shippingPrice", "shippingTax", "vatExclusiveItemPrice",
     "vatExclusiveShippingPrice", "asin", "referenciaProv"}

\* the rows a procedure returns: an order id (or no such column), a column
\* of the order and a column of the product
GroupRows ==
    [amazonOrderId : {"A", "B"}, buyerName : {"n"}, sku : {"s1", "s2"}] \cup
    [buyerName : {"n"}, sku : {"s1", "s2"}]

\* {field: row.get(field) for field in product_fields if field in row}
product_info(row) ==
    [field \in product_fields \cap DOMAIN row |-> row[field]]

\* {key: value for key, value in row.items() if key not in product_fields},
\* then order_info['items'] = [product_info]
order_info(row) ==
    [key \in (DOMAIN row \ product_fields) \cup {"items"} |->
        IF key = "items" THEN <<product_info(row)>> ELSE row[key]]

\* every row taken for the first of its order
Seen_never(order_id, processed_order_ids) == FALSE

\* order_id in processed_order_ids
Seen(order_id, processed_order_ids) == order_id \in DOMAIN processed_order_ids

\* the for loop over the rows left (rest), with the locals as they are
RECURSIVE GroupLoop(_, _, _)
GroupLoop(rest, grouped_orders, processed_order_ids) ==
    IF rest = <<>> THEN grouped_orders
    ELSE LET row == Head(rest)
             order_id == Get(row, "amazonOrderId", NoneValue)
         IN IF ~Seen(order_id, processed_order_ids)
            THEN LET appended == Append(grouped_orders, order_info(row)) IN
                 GroupLoop(Tail(rest), appended,
                           (order_id :> Len(appended) - 1) @@ processed_order_ids)
            ELSE LET index == processed_order_ids[order_id] IN
                 GroupLoop(Tail(rest),
                           [grouped_orders EXCEPT ![index + 1].items =
                                Append(@, product_info(row))],
                           processed_order_ids)

group_orders_with_items(raw_rows) ==
    IF raw_rows = <<>> THEN <<>> ELSE GroupLoop(raw_rows, <<>>, <<>>)

InitGroup ==
    /\ InitOrch
    /\ db = [shipped |-> [o \in ExistingOrders |-> FALSE],
             queue |-> [o \in ExistingOrders |-> "none"],
             file |-> [o \in ExistingOrders |-> <<>>],
             fileFlag |-> [o \in ExistingOrders |-> FALSE],
             detail |-> [o \in ExistingOrders |-> <<>>],
             tracking |-> [o \in ExistingOrders |-> <<>>],
             servicio |-> [o \in ExistingOrders |-> "v"]]
    /\ pDoc = NoneValue
    /\ pOrder = NoneValue
    /\ pResult = NotStarted
    /\ BuildIdle
    /\ QueueIdle
    /\ AuthIdle
    /\ gRows \in UNION {[1..n -> GroupRows] : n \in 0..MaxRows}
    /\ gResult = NotStarted

GroupStep ==
    /\ gResult = NotStarted
    /\ gResult' = Return(group_orders_with_items(gRows))
    /\ UNCHANGED <<gRows, pDoc, pOrder, pResult, buildVars, queueVars, authVars,
                   orchVars>>

NextGroup == GroupStep

SpecGroup == InitGroup /\ [][NextGroup]_vars


(***************************************************************************)
(* What a request's trace says.                                            *)
(***************************************************************************)
UpdateProcs == {"uSp_updateShipmentFile", "uSp_updateOrdersDetailFile",
                "uSp_updateOrdersDetailWS", "uSp_updateShipmentWS",
                "uSp_updateOrdersWS"}

\* a mutation call or a commit, carried out or raised
IsWrite(e) ==
    \/ e.op \in {"execute", "execute_raised"} /\ e.sp \in UpdateProcs
    \/ e.op \in {"commit", "commit_raised"}

Writes(tr) == SelectSeq(tr, IsWrite)
WriteName(e) == IF e.op \in {"execute", "execute_raised"} THEN e.sp ELSE "commit"
WriteRaised(e) == e.op \in {"execute_raised", "commit_raised"}
Posts(tr) == SelectSeq(tr, LAMBDA e : e.op = "post")

\* w goes through plan from its start, and only its last entry may have raised
FollowsPlan(w, plan) ==
    /\ Len(w) <= Len(plan)
    /\ \A i \in 1..Len(w) :
        /\ WriteName(w[i]) = plan[i]
        /\ WriteRaised(w[i]) => i = Len(w)

IsWs(r) == Get(data[r], "shipmentType", "") = "usingWS"
IsFile(r) == Get(data[r], "shipmentType", "") = "usingFile"
ResultCode(r) == Get(gls_response[r], "codResponseWS", NoneValue)
AnsweredOk(r) == pc[r] = "done" /\ resp[r].http = 200

WsWritePlan == <<"uSp_updateOrdersDetailWS", "commit",
                 "uSp_updateShipmentWS", "commit",
                 "uSp_updateOrdersWS", "commit">>

(***************************************************************************)
(* C1.  In a single-service registration whose carrier outcome has result  *)
(* code "0", the writes are the order-detail update, the shipment update   *)
(* and the order update, in this order, each committed before the next is  *)
(* issued; no write is issued before the carrier exchange; and a request   *)
(* answered ok has made exactly these three writes and their commits.      *)
(***************************************************************************)
C1_ThreeWritesInOrder ==
    \A r \in Reqs :
        IsWs(r) =>
            /\ FollowsPlan(Writes(trace[r]), WsWritePlan)
            /\ \A i \in 1..Len(trace[r]) :
                IsWrite(trace[r][i]) =>
                    /\ ResultCode(r) = "0"
                    /\ \E j \in 1..(i - 1) : trace[r][j].op = "post"
            /\ (AnsweredOk(r) /\ ResultCode(r) = "0") =>
                /\ Len(Writes(trace[r])) = Len(WsWritePlan)
                /\ \A i \in 1..Len(Writes(trace[r])) :
                    ~WriteRaised(Writes(trace[r])[i])

C1_Witness ==
    \E r \in Reqs :
        /\ IsWs(r) /\ AnsweredOk(r) /\ ResultCode(r) = "0"
        /\ Len(Writes(trace[r])) = Len(WsWritePlan)

(***************************************************************************)
(* C2.  A carrier outcome whose result code is not exactly "0" ends the    *)
(* single-service registration at once: no write and no commit, nothing    *)
(* left in the transaction, and a status-ok answer whose payload is the    *)
(* outcome itself.                                                         *)
(***************************************************************************)
C2_NoWriteOnFailureCode ==
    \A r \in Reqs :
        (gls_response[r] /= Unset /\ ResultCode(r) /= "0") =>
            /\ Writes(trace[r]) = <<>>
            /\ tx[r] = <<>>
            /\ pc[r] = "done"
            /\ resp[r].http = 200
            /\ resp[r].body.header.status = "ok"
            /\ resp[r].body.payload = gls_response[r]

C2_Witness ==
    \E r1, r2 \in Reqs :
        /\ gls_response[r1] /= Unset /\ ResultCode(r1) = "00"
        /\ gls_response[r2] /= Unset /\ ResultCode(r2) = "7"
        /\ pc[r1] = "done" /\ pc[r2] = "done"

(***************************************************************************)
(* C3.  When the carrier exchange raises (timeout, connection error), the  *)
(* outcome has result code "-1", the error's text and the order id, none   *)
(* of the three updates is made, and the answer is status ok with that     *)
(* outcome as payload.                                                     *)
(***************************************************************************)
TransportFailed(r) ==
    \E i \in 1..Len(trace[r]) :
        trace[r][i].op = "post" /\ trace[r][i].params[1].kind = "raise"

TransportError(r) == Posts(trace[r])[1].params[1].exc

C3_TransportFailure ==
    \A r \in Reqs :
        TransportFailed(r) =>
            /\ gls_response[r] /= Unset
            /\ gls_response[r].codResponseWS = "-1"
            /\ gls_response[r].responseWS = TransportError(r)
            /\ gls_response[r].idOrder = data[r].idOrder
            /\ Writes(trace[r]) = <<>>
            /\ pc[r] = "done"
            /\ resp[r].http = 200
            /\ resp[r].body.header.status = "ok"
            /\ resp[r].body.payload = gls_response[r]

C3_Witness ==
    \E r \in Reqs :
        /\ TransportFailed(r)
        /\ TransportError(r) = "ReadTimeout"
        /\ pc[r] = "done"


(***************************************************************************)
(* C4.  A single-service registration for an order id that no order has    *)
(* is answered with content 0 and the message "El pedido no existe",       *)
(* without a carrier call and without a write.                             *)
(***************************************************************************)
C4_UnknownOrderMessage ==
    \A r \in Reqs :
        (IsWs(r) /\ data[r].idOrder = UnknownOrder /\ pc[r] = "done") =>
            /\ resp[r].http = 200
            /\ resp[r].body.header.content = 0
            /\ Get(resp[r].body, "message", "") = "El pedido no existe"
            /\ Posts(trace[r]) = <<>>
            /\ Writes(trace[r]) = <<>>

(***************************************************************************)
(* C5.  When the not-shipped check of a single-service registration runs   *)
(* for an order that is marked shipped, the request ends there: the answer *)
(* is ok with content 0, an empty payload and the message "El pedido ya    *)
(* fue enviado"; the shipment fields are not read, the carrier is not      *)
(* called, nothing is written; and an answered request does nothing more.  *)
(***************************************************************************)
AlreadyShippedAnswer ==
    Ok([header |-> [status |-> "ok", content |-> 0],
        payload |-> <<>>,
        message |-> "El pedido ya fue enviado"])

C5_AlreadyShipped ==
    [][\A r \in Reqs :
        /\ (/\ pc[r] = "ws_check"
            /\ pc'[r] /= "ws_check"
            /\ data[r].idOrder \in ExistingOrders
            /\ db.shipped[data[r].idOrder]) =>
                /\ pc'[r] = "done"
                /\ resp'[r] = AlreadyShippedAnswer
                /\ tx'[r] = <<>>
                /\ \A i \in 1..Len(trace'[r]) :
                    /\ trace'[r][i].sp = "uSp_isOrderNotShipped"
                    /\ trace'[r][i].op /= "post"
        /\ pc[r] = "done" =>
                /\ pc'[r] = "done"
                /\ resp'[r] = resp[r]
                /\ trace'[r] = trace[r]
                /\ tx'[r] = tx[r]]_vars

C5_Witness ==
    \E r \in Reqs :
        /\ IsWs(r) /\ pc[r] = "done"
        /\ data[r].idOrder \in ExistingOrders
        /\ db.shipped[data[r].idOrder]
        /\ Len(trace[r]) = 1 /\ trace[r][1].op = "execute"
        /\ resp[r] = AlreadyShippedAnswer
        /\ \A q \in Reqs \ {r} : pc[q] = "idle"

(***************************************************************************)
(* C6.  A bulk registration whose selection gives no eligible order is     *)
(* answered ok with content 0 and an empty payload; it generates no file   *)
(* identifier and issues no mutation and no commit.                        *)
(***************************************************************************)
SelectedNothing(r) ==
    /\ IsFile(r)
    /\ trace[r] /= <<>>
    /\ trace[r][1].op = "execute"
    /\ rows[r] = <<>>

C6_BulkNothingEligible ==
    \A r \in Reqs :
        SelectedNothing(r) =>
            /\ pc[r] = "done"
            /\ resp[r].http = 200
            /\ resp[r].body = [header |-> [status |-> "ok", content |-> 0],
                               payload |-> <<>>]
            /\ file_name[r] = <<>>
            /\ Len(trace[r]) = 1
            /\ tx[r] = <<>>

C6_Witness ==
    \E r \in Reqs : SelectedNothing(r) /\ pc[r] = "done"

(***************************************************************************)
(* C7.  A bulk registration that selected N >= 1 orders generates one file *)
(* identifier and every record of its payload carries it; its mutation     *)
(* calls are the file marking (with that identifier) and then the order    *)
(* detail flagging, each followed by its commit; a request answered ok has *)
(* made exactly these two calls and returns the N records.                 *)
(***************************************************************************)
FileWritePlan == <<"uSp_updateShipmentFile", "commit",
                   "uSp_updateOrdersDetailFile", "commit">>

C7_BulkOneFileTwoMutations ==
    \A r \in Reqs :
        IsFile(r) =>
            /\ FollowsPlan(Writes(trace[r]), FileWritePlan)
            /\ Len(file_name[r]) <= 1
            /\ file_name[r] /= <<>> =>
                \A i \in 1..Len(rows[r]) :
                    rows[r][i].fileGenerateName = file_name[r][1]
            /\ \A i \in 1..Len(trace[r]) :
                trace[r][i].sp = "uSp_updateShipmentFile" =>
                    trace[r][i].params = file_name[r]
            /\ (AnsweredOk(r) /\ rows[r] /= <<>>) =>
                /\ Len(file_name[r]) = 1
                /\ Len(Writes(trace[r])) = Len(FileWritePlan)
                /\ \A i \in 1..Len(Writes(trace[r])) :
                    ~WriteRaised(Writes(trace[r])[i])
                /\ resp[r].body.header.status = "ok"
                /\ resp[r].body.payload = rows[r]

C7_Witness ==
    \E r \in Reqs :
        /\ IsFile(r) /\ AnsweredOk(r)
        /\ Len(rows[r]) = 2
        /\ Len(Writes(trace[r])) = Len(FileWritePlan)

(***************************************************************************)
(* C8.  _parse_gls_response always returns and never raises; for a         *)
(* document that is malformed or lacks the result envelope, the shipment   *)
(* node or the result node, the outcome has result code "-1", a non-empty  *)
(* description, the order id of the call and no carrier identifier.        *)
(***************************************************************************)
Parsed == pResult.kind /= "none"
FailureKeys == {"codResponseWS", "responseWS", "messageWS", "idOrder"}
IdentifierKeys == {"uidExp", "codBar", "exp", "refs", "LabelBase64"}

C8_ParserNeverRaises ==
    Parsed =>
        /\ pResult.kind = "return"
        /\ pDoc.shape /= "complete" =>
            /\ DOMAIN pResult.value = FailureKeys
            /\ pResult.value.codResponseWS = "-1"
            /\ Truthy(pResult.value.responseWS)
            /\ Truthy(pResult.value.messageWS)
            /\ pResult.value.idOrder = pOrder

C8_Witness ==
    /\ Parsed
    /\ pDoc.shape = "malformed"
    /\ pResult.kind = "return"
    /\ pResult.value.codResponseWS = "-1"

(***************************************************************************)
(* C9.  For a document whose result code is not exactly the string "0"     *)
(* ("00" included), the outcome carries that code and none of unique id,   *)
(* barcode, expedition code, references and label, and its message is the  *)
(* table's entry for the code or, when the table has none, the error text  *)
(* taken from the document; only the code "0" gives the identifiers.       *)
(***************************************************************************)
DocCode == IF pDoc.ret = Absent THEN "-1" ELSE pDoc.ret
DocErrorText == IF pDoc.err = Absent THEN "Error desconocido" ELSE pDoc.err

C9_FailureCodeNoIdentifiers ==
    (Parsed /\ pResult.kind = "return" /\ pDoc.shape = "complete") =>
        /\ DocCode /= "0" =>
            /\ DOMAIN pResult.value \cap IdentifierKeys = {}
            /\ pResult.value.codResponseWS = DocCode
            /\ pResult.value.messageWS =
                    IF DocCode \in DOMAIN errors
                    THEN errors[DocCode] ELSE DocErrorText
        /\ DocCode = "0" => IdentifierKeys \subseteq DOMAIN pResult.value

C9_Witness ==
    /\ Parsed
    /\ pDoc.shape = "complete"
    /\ pDoc.ret = "00"
    /\ pResult.kind = "return"
    /\ pResult.value.codResponseWS = "00"

(***************************************************************************)
(* C10.  For a well-formed document with result code "0" the outcome has   *)
(* code "0", the barcode, unique id and expedition code of the shipment    *)
(* node's attributes, one reference per reference of the document, in the  *)
(* document's order, with its type and text, and the label's text as it    *)
(* is in the document.                                                     *)
(***************************************************************************)
C10_SuccessDocument ==
    (Parsed /\ pResult.kind = "return" /\ pDoc.shape = "complete"
        /\ pDoc.ret = "0") =>
        LET v == pResult.value IN
        /\ v.codResponseWS = "0"
        /\ v.idOrder = pOrder
        /\ v.codBar = (IF pDoc.codbarras = Absent THEN "" ELSE pDoc.codbarras)
        /\ v.uidExp = (IF pDoc.uid = Absent THEN "" ELSE pDoc.uid)
        /\ v.exp = (IF pDoc.codexp = Absent THEN "" ELSE pDoc.codexp)
        /\ Len(v.refs) = Len(pDoc.refs)
        /\ \A i \in 1..Len(pDoc.refs) :
            /\ pDoc.refs[i].tipo /= Absent => v.refs[i].type = pDoc.refs[i].tipo
            /\ pDoc.refs[i].text /= NoneValue =>
                    v.refs[i].value = pDoc.refs[i].text
        /\ pDoc.label /= Absent => v.LabelBase64 = pDoc.label

C10_Witness ==
    /\ Parsed
    /\ pDoc.shape = "complete"
    /\ pDoc.ret = "0"
    /\ Len(pDoc.refs) = 2
    /\ pDoc.refs[1].text = "REF1"
    /\ pDoc.refs[2].text = "REF2"
    /\ pDoc.label = "JVBERi0xLjQK"
    /\ pResult.value.LabelBase64 = "JVBERi0xLjQK"
    /\ Len(pResult.value.refs) = 2

(***************************************************************************)
(* C11.  For a document that has the result envelope and the shipment node *)
(* but no result node in it, whatever its other content, the outcome has   *)
(* result code "-1", the text "Nodo Resultado no encontrado" as its        *)
(* response text, the fixed message "Error en solicitud GLS", the order id *)
(* of the call and nothing else.                                           *)
(***************************************************************************)
C11_NoResultNode ==
    (Parsed /\ pDoc.shape = "no_resultado") =>
        /\ pResult.kind = "return"
        /\ pResult.value =
                [codResponseWS |-> "-1",
                 responseWS |-> "Nodo Resultado no encontrado",
                 messageWS |-> "Error en solicitud GLS",
                 idOrder |-> pOrder]

C11_Witness ==
    /\ Parsed
    /\ pDoc.shape = "no_resultado"
    /\ pDoc.ret = "0"
    /\ Len(pDoc.refs) = 2
    /\ pResult.kind = "return"
    /\ pResult.value.responseWS = "Nodo Resultado no encontrado"

\* the documents in which the walk finds no <Resultado>: the envelope, the
\* shipment node or the result node itself is not there
MissingResultNode == pDoc.shape \in {"no_result", "no_envio", "no_resultado"}

\* C11 as stated: every document without a result node gives that text
C11_AnyDocumentWithoutResultNode ==
    (Parsed /\ MissingResultNode) =>
        /\ pResult.kind = "return"
        /\ pResult.value.codResponseWS = "-1"
        /\ pResult.value.responseWS = "Nodo Resultado no encontrado"

(***************************************************************************)
(* C12.  In a single-service registration for order X whose carrier        *)
(* document has result code "0" and expedition code E, each of the three   *)
(* updates names X, the order id of the request, and the order-detail      *)
(* update and the order update both carry E; a request answered ok has     *)
(* made the three of them.                                                 *)
(***************************************************************************)
WsUpdateProcs == {"uSp_updateOrdersDetailWS", "uSp_updateShipmentWS",
                  "uSp_updateOrdersWS"}

\* the expedition code in the document the carrier returned to r
CarrierExp(r) == Posts(trace[r])[1].params[1].value.codexp

\* the update calls of a trace, carried out or raised
Updates(tr) ==
    SelectSeq(tr, LAMBDA e : e.op \in {"execute", "execute_raised"}
                             /\ e.sp \in WsUpdateProcs)

C12_WritesNameOrderAndExpedition ==
    \A r \in Reqs :
        (IsWs(r) /\ Updates(trace[r]) /= <<>>) =>
            /\ Len(Posts(trace[r])) = 1
            /\ Posts(trace[r])[1].params[1].kind = "return"
            /\ CarrierExp(r) /= Absent
            /\ \A i \in 1..Len(Updates(trace[r])) :
                LET u == Updates(trace[r])[i] IN
                /\ u.params[1] = data[r].idOrder
                /\ u.sp = "uSp_updateOrdersDetailWS" =>
                        u.params[3] = CarrierExp(r)
                /\ u.sp = "uSp_updateOrdersWS" => u.params[2] = CarrierExp(r)
            /\ AnsweredOk(r) =>
                {Updates(trace[r])[i].sp : i \in 1..Len(Updates(trace[r]))}
                    = WsUpdateProcs

C12_Witness ==
    \E r \in Reqs :
        /\ IsWs(r) /\ AnsweredOk(r)
        /\ data[r].idOrder = "X2"
        /\ Len(Updates(trace[r])) = 3
        /\ CarrierExp(r) = "EXP2"
        /\ Updates(trace[r])[3].params = <<"X2", "EXP2">>
        /\ db.tracking["X2"] = <<"EXP2">>

(***************************************************************************)
(* C13.  When the k-th of the three updates of a single-service            *)
(* registration raises, in its call or in its commit, the step leaves the  *)
(* committed database as it was, with the earlier updates in it; the open  *)
(* transaction is rolled back; the request ends with HTTP 500 "Error       *)
(* interno"; and an ended request issues nothing more.                     *)
(***************************************************************************)
InternalError == [http |-> 500, detail |-> "Error interno"]

\* the step in which a mutation call or a commit of r raises
WriteFails(r) ==
    /\ Len(Writes(trace'[r])) = Len(Writes(trace[r])) + 1
    /\ WriteRaised(Writes(trace'[r])[Len(Writes(trace'[r]))])

\* which of the updates the n-th entry of the write plan belongs to
UpdateOf(n) == (n + 1) \div 2

C13_UpdateFailure ==
    [][\A r \in Reqs :
        /\ (IsWs(r) /\ WriteFails(r)) =>
            LET w == Writes(trace'[r])
                k == UpdateOf(Len(w))
                X == data[r].idOrder
            IN  /\ k \in 1..3
                /\ \A i \in 1..(Len(w) - 1) :
                    /\ WriteName(w[i]) = WsWritePlan[i]
                    /\ ~WriteRaised(w[i])
                /\ db' = db
                /\ k >= 2 => db'.detail[X] /= <<>>
                /\ k >= 3 => db'.shipped[X]
                /\ tx'[r] = <<>>
                /\ trace'[r][Len(trace'[r])] = RolledBack
                /\ pc'[r] = "done"
                /\ resp'[r] = InternalError
        /\ pc[r] = "done" => (pc'[r] = "done" /\ trace'[r] = trace[r]
                               /\ resp'[r] = resp[r])]_vars

C13_Witness ==
    \E r \in Reqs :
        /\ IsWs(r) /\ pc[r] = "done"
        /\ resp[r] = InternalError
        /\ Len(Writes(trace[r])) = 5
        /\ Writes(trace[r])[5].op = "execute_raised"
        /\ db.detail[data[r].idOrder] /= <<>>
        /\ db.shipped[data[r].idOrder]
        /\ db.tracking[data[r].idOrder] = <<>>
        /\ \A q \in Reqs \ {r} : pc[q] = "idle"

(***************************************************************************)
(* C14.  A request in which a database call or a commit raised, the        *)
(* not-shipped check and the shipment-field read included, has ended with  *)
(* HTTP 500 "Error interno" and never with an ok answer.                   *)
(***************************************************************************)
\* some database call or commit of r raised
DataLayerRaised(r) ==
    \E i \in 1..Len(trace[r]) :
        trace[r][i].op \in {"execute_raised", "commit_raised"}

C14_DataLayerExceptionIsInternalError ==
    \A r \in Reqs :
        DataLayerRaised(r) =>
            /\ pc[r] = "done"
            /\ resp[r] = InternalError

(***************************************************************************)
(* C15.  A single-service request whose body has no order id, or a null or *)
(* empty one, makes no database call and no carrier call at any time, and  *)
(* ends rejected: by the schema (422) or by the handler (400, "idOrder es  *)
(* requerido para shipmentType=usingWS").  A bulk request with no order id *)
(* is not rejected and goes on to the selection.                           *)
(***************************************************************************)
\* r came with a single-service body that names no order
WsWithoutOrder(r) ==
    /\ body[r] /= Unset
    /\ body[r].shipmentType = "usingWS"
    /\ Get(body[r], "idOrder", NoneValue) \in {NoneValue, ""}

\* r came with a bulk body that names no order
FileWithoutOrder(r) ==
    /\ body[r] /= Unset
    /\ body[r].shipmentType = "usingFile"
    /\ "idOrder" \notin DOMAIN body[r]

C15_OrderIdRequired ==
    \A r \in Reqs :
        /\ WsWithoutOrder(r) =>
            /\ trace[r] = <<>>
            /\ tx[r] = <<>>
            /\ pc[r] \in {"handler", "ws_require_id", "done"}
            /\ pc[r] = "done" =>
                \/ resp[r] = [http |-> 422, detail |-> "ValueError"]
                \/ resp[r] = [http |-> 400, detail |->
                        "idOrder es requerido para shipmentType=usingWS"]
        /\ FileWithoutOrder(r) =>
            /\ data[r] = [shipmentType |-> "usingFile", idOrder |-> NoneValue]
            /\ resp[r].http \notin {400, 422}
            /\ pc[r] = "done" =>
                /\ trace[r] /= <<>>
                /\ trace[r][1].sp = "uSp_getOrdersForShipmentFile"

C15_Witness ==
    \E r1, r2 \in Reqs :
        /\ WsWithoutOrder(r1) /\ body[r1] = [shipmentType |-> "usingWS"]
        /\ pc[r1] = "done" /\ resp[r1].http = 400
        /\ WsWithoutOrder(r2) /\ DOMAIN body[r2] = {"shipmentType", "idOrder"}
        /\ body[r2].idOrder = ""
        /\ pc[r2] = "done" /\ resp[r2].http = 422

(***************************************************************************)
(* C16.  A request sends at most one POST to the carrier, whatever fails.  *)
(* A bulk request sends none; a single-service request sends none before   *)
(* its carrier call, and after it exactly one if the shipment row had      *)
(* every field of the request document, none if the document could not be  *)
(* built.                                                                  *)
(***************************************************************************)
\* r is past request_shipment_ws
Called(r) == gls_response[r] /= Unset

\* the shipment row of r has every placeholder of the template that the
\* configuration and the date do not give
DocumentBuilt(r) ==
    /\ envio[r] /= Unset
    /\ \A k \in {"servicio", "horario", "bultos", "peso", "destinatario",
                  "direccion", "poblacion", "pais", "cp", "telefono",
                  "movil", "email", "departamento", "observaciones",
                  "refC"} : k \in DOMAIN envio[r]

C16_AtMostOnePost ==
    \A r \in Reqs :
        /\ Len(Posts(trace[r])) <= 1
        /\ ~IsWs(r) => Posts(trace[r]) = <<>>
        /\ ~Called(r) => Posts(trace[r]) = <<>>
        /\ Called(r) =>
            Len(Posts(trace[r])) = (IF DocumentBuilt(r) THEN 1 ELSE 0)

C16_Witness ==
    \E r1, r2 \in Reqs :
        /\ Called(r1) /\ DocumentBuilt(r1)
        /\ pc[r1] = "done" /\ resp[r1] = InternalError
        /\ Len(Posts(trace[r1])) = 1
        /\ Called(r2) /\ ~DocumentBuilt(r2)
        /\ pc[r2] = "done" /\ Posts(trace[r2]) = <<>>

(***************************************************************************)
(* C17.  Nothing holds back the not-shipped check of a single-service      *)
(* request: while the order's completion flag is not committed the check   *)
(* can pass, wherever another request for the same order is.  So two       *)
(* requests for one unshipped order can both pass it and both call the     *)
(* carrier (the state C17_Witness).                                        *)
(***************************************************************************)
\* r is at its not-shipped check for an order that is not marked shipped
AtCheckUnshipped(r) ==
    /\ pc[r] = "ws_check"
    /\ data[r].idOrder \in ExistingOrders
    /\ ~db.shipped[data[r].idOrder]

C17_CheckNotSerialized ==
    \A r \in Reqs :
        AtCheckUnshipped(r) => ENABLED (WsCheck(r) /\ pc'[r] = "ws_fetch")

\* r received a document with result code "0" from the carrier
Registered(r) ==
    /\ Len(Posts(trace[r])) = 1
    /\ Posts(trace[r])[1].params[1].kind = "return"
    /\ Posts(trace[r])[1].params[1].value.shape = "complete"
    /\ Posts(trace[r])[1].params[1].value.ret = "0"

C17_Witness ==
    \E r1, r2 \in Reqs :
        /\ r1 /= r2
        /\ IsWs(r1) /\ IsWs(r2)
        /\ data[r1].idOrder = "X1" /\ data[r2].idOrder = "X1"
        /\ Registered(r1) /\ Registered(r2)
        /\ pc[r1] = "ws_detail" /\ pc[r2] = "ws_detail"
        /\ ~db.shipped["X1"]

(***************************************************************************)
(* C18.  When the order-detail flagging of a bulk registration raises, in  *)
(* its call or in its commit, after the file marking was committed, the    *)
(* step leaves the committed database as it was: the selected orders keep  *)
(* their file marking and, unless another bulk request flagged them, their *)
(* order details are not flagged; nothing is issued to undo the marking;   *)
(* the request ends with HTTP 500 "Error interno" and not with the         *)
(* payload.                                                                *)
(***************************************************************************)
\* q committed its order-detail flagging
FlaggedDetails(q) ==
    /\ IsFile(q)
    /\ Len(Writes(trace[q])) = Len(FileWritePlan)
    /\ ~WriteRaised(Writes(trace[q])[Len(FileWritePlan)])

\* the orders r selected
Selected(r) == {rows[r][i].idOrder : i \in 1..Len(rows[r])}

C18_BulkDetailFlagFailure ==
    [][\A r \in Reqs :
        (IsFile(r) /\ WriteFails(r) /\ Len(Writes(trace'[r])) >= 3) =>
            LET w == Writes(trace'[r]) IN
            /\ WriteName(w[1]) = "uSp_updateShipmentFile"
            /\ w[2].op = "commit"
            /\ WriteName(w[3]) = "uSp_updateOrdersDetailFile"
            /\ Len(w) <= 4
            /\ db' = db
            /\ \A o \in Selected(r) :
                /\ db'.file[o] /= <<>>
                /\ (\A q \in Reqs : ~FlaggedDetails(q)) => ~db'.fileFlag[o]
            /\ tx'[r] = <<>>
            /\ trace'[r][Len(trace'[r])] = RolledBack
            /\ pc'[r] = "done"
            /\ resp'[r] = InternalError]_vars

C18_Witness ==
    \E r \in Reqs :
        /\ IsFile(r) /\ pc[r] = "done"
        /\ resp[r] = InternalError
        /\ Selected(r) = {"X1", "X2"}
        /\ Len(Writes(trace[r])) = 4
        /\ Writes(trace[r])[4].op = "commit_raised"
        /\ \A o \in Selected(r) : db.file[o] /= <<>> /\ ~db.fileFlag[o]
        /\ \A q \in Reqs \ {r} : pc[q] = "idle"

(***************************************************************************)
(* C19.  What a request has done is always a beginning of its path's       *)
(* sequence of steps.  Single path: not-shipped check, shipment-field      *)
(* read, carrier call, then the three updates, each with its commit.  Bulk *)
(* path: selection, file marking and commit, order-detail flagging and     *)
(* commit, the file identifier being generated after the selection and     *)
(* before the marking.  A step that raised is the last one.  There is no   *)
(* answer before the request has ended, no carrier call without the check  *)
(* and the read before it, and no bulk payload before both commits.        *)
(***************************************************************************)
StepName(e) ==
    IF e.op = "post" THEN "post"
    ELSE IF e.op \in {"commit", "commit_raised"} THEN "commit"
    ELSE e.sp

\* the steps of a trace, the rollback that ends a failed request left out
Steps(tr) == SelectSeq(tr, LAMBDA e : e.op /= "rollback")

WsStepPlan == <<"uSp_isOrderNotShipped", "uSp_getOrdersForShipmentWS", "post",
                "uSp_updateOrdersDetailWS", "commit",
                "uSp_updateShipmentWS", "commit",
                "uSp_updateOrdersWS", "commit">>

FileStepPlan == <<"uSp_getOrdersForShipmentFile",
                  "uSp_updateShipmentFile", "commit",
                  "uSp_updateOrdersDetailFile", "commit">>

InOrder(t, plan) ==
    /\ Len(t) <= Len(plan)
    /\ \A i \in 1..Len(t) :
        /\ StepName(t[i]) = plan[i]
        /\ t[i].op \in {"execute_raised", "commit_raised"} => i = Len(t)

C19_StepsInOrder ==
    \A r \in Reqs :
        LET t == Steps(trace[r]) IN
        /\ pc[r] /= "done" => resp[r] = NoResponse
        /\ IsWs(r) =>
            /\ InOrder(t, WsStepPlan)
            /\ envio[r] /= Unset => Len(t) >= 2
            /\ gls_response[r] /= Unset => envio[r] /= Unset
            /\ Len(t) >= 3 => gls_response[r] /= Unset
            /\ file_name[r] = <<>>
        /\ IsFile(r) =>
            /\ InOrder(t, FileStepPlan)
            /\ file_name[r] /= <<>> => Len(t) >= 1
            /\ Len(t) >= 2 => file_name[r] /= <<>>
            /\ (AnsweredOk(r) /\ resp[r].body.payload /= <<>>) =>
                /\ Len(t) = Len(FileStepPlan)
                /\ t[3].op = "commit" /\ t[5].op = "commit"
                /\ \A o \in Selected(r) : db.file[o] /= <<>> /\ db.fileFlag[o]
            /\ envio[r] = Unset /\ gls_response[r] = Unset

C19_Witness ==
    \E r1, r2 \in Reqs :
        /\ IsWs(r1) /\ AnsweredOk(r1)
        /\ Len(Steps(trace[r1])) = Len(WsStepPlan)
        /\ IsFile(r2) /\ AnsweredOk(r2)
        /\ Len(Steps(trace[r2])) = Len(FileStepPlan)

(***************************************************************************)
(* C20.  When the shipment-field read of a single-service request, made    *)
(* after the not-shipped check passed, gives no row, the request ends with *)
(* the empty ok answer (content 0, empty payload): no request document is  *)
(* built, the carrier is not called and nothing is written.                *)
(***************************************************************************)
\* r made its shipment-field read and the order has nothing queued for the
\* web service
ReadNothing(r) ==
    /\ IsWs(r)
    /\ Len(trace[r]) >= 2
    /\ trace[r][2].op = "execute"
    /\ trace[r][2].sp = "uSp_getOrdersForShipmentWS"
    /\ data[r].idOrder \in ExistingOrders
    /\ db.queue[data[r].idOrder] /= "usingWS"

C20_NothingToShip ==
    \A r \in Reqs :
        ReadNothing(r) =>
            /\ pc[r] = "done"
            /\ resp[r] = [http |-> 200,
                           body |-> [header |-> [status |-> "ok", content |-> 0],
                                     payload |-> <<>>]]
            /\ envio[r] = Unset
            /\ gls_response[r] = Unset
            /\ Len(trace[r]) = 2
            /\ tx[r] = <<>>

C20_Witness ==
    \E r \in Reqs :
        /\ ReadNothing(r)
        /\ data[r].idOrder = "X2"
        /\ db.queue["X2"] = "usingFile"
        /\ pc[r] = "done"
        /\ \A o \in ExistingOrders : db.detail[o] = <<>> /\ db.tracking[o] = <<>>

(***************************************************************************)
(* C21.  For a document with a failure result code the outcome's message   *)
(* is the table's entry when the code is in the table, the document's      *)
(* error text otherwise, "Error desconocido" when there is no error node;  *)
(* and the message is never empty.                                         *)
(***************************************************************************)
C21_FailureMessageNeverEmpty ==
    (Parsed /\ pResult.kind = "return" /\ pDoc.shape = "complete"
        /\ DocCode /= "0") =>
        /\ DocCode \in DOMAIN errors => pResult.value.messageWS = errors[DocCode]
        /\ (DocCode \notin DOMAIN errors /\ pDoc.err /= Absent) =>
                pResult.value.messageWS = pDoc.err
        /\ (DocCode \notin DOMAIN errors /\ pDoc.err = Absent) =>
                pResult.value.messageWS = "Error desconocido"
        /\ pResult.value.messageWS \notin {NoneValue, ""}

(***************************************************************************)
(* C22.  The code -> message table of get_error_message has exactly 13     *)
(* codes, each with a non-empty message: telephone format (+38), postal    *)
(* code (36, -33, -131), timeout (-1), duplicate barcode (-3), package     *)
(* count and weight limits (-48, -49), duplicate order (-70), service      *)
(* unavailable (-99), and name, address and city length (-128, -129,       *)
(* -130).  A parsed failure code gets its message from the table exactly   *)
(* when it is one of them.                                                 *)
(***************************************************************************)
C22_ThirteenCodes ==
    /\ DOMAIN errors = {"+38", "36", "-1", "-3", "-33", "-48", "-49", "-70",
                        "-99", "-128", "-129", "-130", "-131"}
    /\ Cardinality(DOMAIN errors) = 13
    /\ \A c \in DOMAIN errors : errors[c] /= "" /\ errors[c] /= NoneValue
    /\ (Parsed /\ pResult.kind = "return" /\ pDoc.shape = "complete"
            /\ DocCode \in {"7", "00"}) =>
        pResult.value.messageWS = DocErrorText

C22_Witness ==
    /\ Parsed
    /\ pDoc.shape = "complete"
    /\ pDoc.ret = "-70"
    /\ pDoc.err = "Texto de error GLS"
    /\ pResult.kind = "return"
    /\ pResult.value.messageWS = "Error, El numero de pedido ya existe"

\* C22 as stated: the table has 14 codes
C22_FourteenCodes ==
    Parsed =>
        /\ Cardinality(DOMAIN errors) = 14
        /\ \A c \in DOMAIN errors : errors[c] /= "" /\ errors[c] /= NoneValue

(***************************************************************************)
(* C23.  generate_soap_xml raises whenever a field of the template has no  *)
(* value: a column that is not in the shipment dict, or a configuration    *)
(* variable that is not set; it never returns a document with a            *)
(* placeholder text in place of a missing value.                           *)
(***************************************************************************)
Built == bResult.kind /= "none"

\* a column of the template is not in the shipment dict
ShipmentFieldAbsent == \E k \in ShipmentColumns : k \notin DOMAIN bEnvio

\* a configuration variable of the template is not set
ConfigFieldAbsent ==
    \E k \in ConfigKeys \cap TemplateFields : bConfig[k] = NoneValue

C23_MissingFieldFails ==
    (Built /\ (ShipmentFieldAbsent \/ ConfigFieldAbsent)) =>
        bResult.kind = "raise"

(***************************************************************************)
(* C24.  Every request that has arrived ends, with an ok answer (HTTP 200) *)
(* or with an error answer (HTTP 400, 422 or 500) and never both; until    *)
(* then it has no answer and can always take a step; every step takes it   *)
(* further along its path, so no step is repeated.  The failed end is      *)
(* reached from every step of both paths (the state C24_Witness: one       *)
(* request failed at the last commit of the single path, one at the last   *)
(* commit of the bulk path).                                               *)
(***************************************************************************)
\* how far along its path a request is
Rank(p) ==
    CASE p = "idle" -> 0
      [] p = "handler" -> 1
      [] p \in {"file_select", "ws_require_id"} -> 2
      [] p \in {"file_name", "ws_check"} -> 3
      [] p \in {"file_mark", "ws_fetch"} -> 4
      [] p \in {"file_mark_commit", "ws_call"} -> 5
      [] p \in {"file_detail", "ws_detail"} -> 6
      [] p \in {"file_detail_commit", "ws_detail_commit"} -> 7
      [] p = "ws_shipment" -> 8
      [] p = "ws_shipment_commit" -> 9
      [] p = "ws_orders" -> 10
      [] p = "ws_orders_commit" -> 11
      [] p = "done" -> 12

EndedDone(r) == pc[r] = "done" /\ resp[r].http = 200
EndedFailed(r) == pc[r] = "done" /\ resp[r].http \in {400, 422, 500}

C24_EndsOnce ==
    \A r \in Reqs :
        /\ (pc[r] = "done") = (resp[r] /= NoResponse)
        /\ pc[r] = "done" => (EndedDone(r) /= EndedFailed(r))
        /\ pc[r] \notin {"idle", "done"} => ENABLED Step(r)

C24_NoStepRepeated ==
    \A r \in Reqs :
        /\ Rank(pc'[r]) >= Rank(pc[r])
        /\ (pc'[r] = pc[r]) =>
            (trace'[r] = trace[r] /\ tx'[r] = tx[r] /\ resp'[r] = resp[r])

MarkedWithFileOf(r) == {o \in ExistingOrders : db.file[o] = file_name[r]}

\* the orders of the payload r was answered with
PayloadOrders(r) ==
    {resp[r].body.payload[i].idOrder : i \in 1..Len(resp[r].body.payload)}

C25_MarkedEqualsPayload ==
    \A r \in Reqs :
        (IsFile(r) /\ AnsweredOk(r) /\ resp[r].body.payload /= <<>>) =>
            MarkedWithFileOf(r) = PayloadOrders(r)

(***************************************************************************)
(* C26.  Once a single-service request for order X has received a document *)
(* with result code "0" from the carrier and has ended, with the ok answer *)
(* or with the internal error, a request for X that arrives afterwards     *)
(* never calls the carrier.                                                *)
(***************************************************************************)
\* r has ended after the carrier registered order X for it
RegisteredAndEnded(r, X) ==
    /\ pc[r] = "done"
    /\ IsWs(r)
    /\ data[r].idOrder = X
    /\ Registered(r)

\* r has called the carrier for order X
CalledCarrierFor(r, X) ==
    /\ IsWs(r)
    /\ data[r].idOrder = X
    /\ Posts(trace[r]) /= <<>>

C26_NoSecondRegistration ==
    \A r1 \in Reqs : \A r2 \in Reqs \ {r1} : \A X \in ExistingOrders :
        []((RegisteredAndEnded(r1, X) /\ pc[r2] = "idle")
            => [](~CalledCarrierFor(r2, X)))

(***************************************************************************)
(* C27.  When POST or DELETE /ordersreadytoship rejects a request because  *)
(* the order does not exist (or, for POST, because it is already shipped), *)
(* it performs no mutation, reports zero affected rows, and the message of *)
(* the response is the rejection reason the route supplies: "El pedido no  *)
(* existe" or "El pedido ya fue enviado".                                  *)
(***************************************************************************)
\* the route returned at its first check / at its second check
RejectedAtExists ==
    /\ qpc = "done"
    /\ qdata.route \in {"POST", "DELETE"}
    /\ Len(qtrace) = 1
RejectedAtUnshipped ==
    /\ qpc = "done"
    /\ qdata.route = "POST"
    /\ Len(qtrace) = 2

\* the request only read: nothing executed but the checks, nothing committed
OnlyChecked ==
    /\ qtx = <<>>
    /\ \A i \in 1..Len(qtrace) :
        /\ qtrace[i].op \in {"execute", "execute_raised"}
        /\ qtrace[i].sp \in {"uSp_isExistOrder", "uSp_isOrderNotShipped"}

AffectedRows ==
    IF qdata.route = "POST" THEN qresp.body.header.insertedRows
    ELSE qresp.body.header.deletedRows

\* C27, the part on mutations and rows alone: a rejected request only ran
\* its checks and reports zero rows
C27_RejectionLeavesDatabase ==
    (RejectedAtExists \/ RejectedAtUnshipped) =>
        OnlyChecked /\ AffectedRows = 0

\* C27: a rejected request only ran its checks, reports zero rows and
\* carries the reason of the rejection as its message
C27_RejectionGivesReason ==
    /\ RejectedAtExists =>
        /\ OnlyChecked
        /\ AffectedRows = 0
        /\ qresp.body.message = "El pedido no existe"
    /\ RejectedAtUnshipped =>
        /\ OnlyChecked
        /\ AffectedRows = 0
        /\ qresp.body.message = "El pedido ya fue enviado"

(***************************************************************************)
(* C28.  After a bulk registration has marked an order's shipment record   *)
(* with a file identifier, every subsequent PATCH /ordersreadytoship for   *)
(* that order updates zero rows and leaves the shipment record unchanged;  *)
(* only records with no file identifier can be edited.                     *)
(***************************************************************************)
\* the PATCH request for order o has run its UPDATE / runs its commit
PatchRan(o) == qpc = "patch_commit" /\ qdata.idOrder = o
PatchUpdates(o) ==
    qpc = "patch_update" /\ qdata.idOrder = o /\ qpc' = "patch_commit"
PatchCommits(o) ==
    qpc = "patch_commit" /\ qdata.idOrder = o /\ qpc' = "done"

\* the shipment record of order o
Record(d, o) ==
    [queue |-> d.queue[o], file |-> d.file[o], servicio |-> d.servicio[o]]

\* C28 as stated: once the record of an order is marked, every PATCH for
\* the order that runs afterwards updates zero rows
C28_NeverEditedAgain ==
    \A o \in ExistingOrders :
        []((db.file[o] /= <<>> /\ ~PatchRan(o)) => [](PatchRan(o) => qrows = 0))

\* C28, amended: a PATCH for an order whose record carries a file identifier
\* updates zero rows and leaves the record as it is; a PATCH changes a
\* record only if it has no file identifier
C28_MarkedRecordNotEdited ==
    [][\A o \in ExistingOrders :
        /\ (db.file[o] /= <<>> /\ PatchUpdates(o)) => qrows' = 0
        /\ (db.file[o] /= <<>> /\ PatchCommits(o)) => Record(db', o) = Record(db, o)
        /\ (PatchCommits(o) /\ Record(db', o) /= Record(db, o)) =>
                db.file[o] = <<>> /\ db'.file[o] = <<>>]_vars

\* a PATCH found the record marked by the bulk registration and updated
\* nothing
C28_Witness ==
    \E o \in ExistingOrders :
        /\ PatchRan(o)
        /\ db.file[o] /= <<>>
        /\ qrows = 0
        /\ pc[BulkReq] \in {"file_detail", "file_detail_commit", "done"}

(***************************************************************************)
(* C29.  Token types are kept separate: a route of the orders router       *)
(* handles a request only if the access_token cookie holds a valid token   *)
(* of type "access" with a non-empty subject (otherwise 401, and the       *)
(* handler, hence the database, is not reached); a refresh token presented *)
(* as an access token is rejected; /auth/refresh issues a new access token *)
(* only for a valid token of type "refresh".                               *)
(***************************************************************************)
\* cookie c is a token signed with our key, not expired at time now, whose
\* type claim is type
ValidToken(c, now, type) ==
    /\ c.jwt
    /\ c.key = "secret"
    /\ c.claims.exp >= now
    /\ "type" \in DOMAIN c.claims
    /\ c.claims.type = type

HasSubject(c) ==
    "sub" \in DOMAIN c.claims /\ c.claims.sub \notin {"", NoneValue}

\* C29: orders routes take valid access tokens with a subject and nothing
\* else, everything else is answered 401 without the handler; /auth/refresh
\* sets an access token only for a valid refresh token
C29_TokenTypesSeparate ==
    /\ ("route" \in DOMAIN aResult /\ aResult.route = "orders") =>
        /\ aResult.handler_called <=>
                (ValidToken(aResult.cookie, aResult.now, "access")
                 /\ HasSubject(aResult.cookie))
        /\ ~aResult.handler_called =>
                aResult.outcome.kind = "raise" /\ aResult.outcome.exc.http = 401
        /\ ValidToken(aResult.cookie, aResult.now, "refresh") =>
                ~aResult.handler_called /\ aResult.outcome.exc.http = 401
    /\ ("route" \in DOMAIN aResult /\ aResult.route = "refresh") =>
        /\ aResult.outcome.kind = "return" <=>
                ValidToken(aResult.cookie, aResult.now, "refresh")
        /\ aResult.outcome.kind = "return" =>
                /\ aResult.outcome.value.set_cookie.claims.type = "access"
                /\ aJar.access_token = aResult.outcome.value.set_cookie
        /\ aResult.outcome.kind = "raise" => aResult.outcome.exc.http = 401

\* a valid refresh token with a subject was presented as the access token
\* and answered 401
C29_Witness ==
    /\ "route" \in DOMAIN aResult
    /\ aResult.route = "orders"
    /\ ValidToken(aResult.cookie, aResult.now, "refresh")
    /\ HasSubject(aResult.cookie)
    /\ aResult.outcome.kind = "raise"
    /\ aResult.outcome.exc.http = 401

(***************************************************************************)
(* C30.  group_orders_with_items returns exactly one entry per distinct    *)
(* amazonOrderId, in order of first appearance, each holding an items list *)
(* with one item per input row of that order in row order (also when the   *)
(* rows of one order are not adjacent); the total number of items equals   *)
(* the number of input rows and an empty input gives an empty list.        *)
(***************************************************************************)
Grouped == gResult.kind = "return"

\* the amazonOrderId of the i-th row
IdOf(i) ==
    IF "amazonOrderId" \in DOMAIN gRows[i] THEN gRows[i].amazonOrderId
    ELSE NoneValue

\* the rows that are the first of their order, and the rows of the order of
\* row i
FirstRows == {i \in 1..Len(gRows) : \A j \in 1..(i - 1) : IdOf(j) /= IdOf(i)}
RowsLike(i) == {j \in 1..Len(gRows) : IdOf(j) = IdOf(i)}

\* the place of i among the members of S
RankIn(S, i) == Cardinality({j \in S : j <= i})

RECURSIVE SumItems(_)
SumItems(orders) ==
    IF orders = <<>> THEN 0
    ELSE Len(Head(orders).items) + SumItems(Tail(orders))

\* C30: one entry per distinct order id in order of first appearance, its
\* items being the product columns of the rows of that order in row order;
\* as many items as rows; nothing for no rows
C30_GroupsByOrder ==
    Grouped =>
        LET out == gResult.value IN
        /\ Len(out) = Cardinality(FirstRows)
        /\ \A i \in FirstRows :
            LET entry == out[RankIn(FirstRows, i)] IN
            /\ ("amazonOrderId" \in DOMAIN entry) =
                    ("amazonOrderId" \in DOMAIN gRows[i])
            /\ ("amazonOrderId" \in DOMAIN entry) =>
                    entry.amazonOrderId = IdOf(i)
            /\ Len(entry.items) = Cardinality(RowsLike(i))
            /\ \A j \in RowsLike(i) :
                entry.items[RankIn(RowsLike(i), j)] = [sku |-> gRows[j].sku]
        /\ SumItems(out) = Len(gRows)
        /\ (gRows = <<>>) => (out = <<>>)

\* rows of one order that are not adjacent end in one entry
C30_Witness ==
    /\ Grouped
    /\ Len(gRows) >= 3
    /\ IdOf(1) = IdOf(3)
    /\ IdOf(1) /= IdOf(2)
    /\ gRows[1].sku /= gRows[3].sku
    /\ Len(gResult.value[1].items) >= 2
    /\ gResult.value[1].items[2] = [sku |-> gRows[3].sku]

====
